---- MODULE Spec2Model ----
(***************************************************************************)
(* A model of polybacker's trade-mirroring pipeline: the copy worker       *)
(* (copy_trader.py), the fund worker (fund_manager.py), the arbitrage      *)
(* executor (arbitrage.py) and the store operations they use (db.py),      *)
(* together with the fund endpoints of server.py.                          *)
(*                                                                         *)
(* Units.  USD amounts are integer cents (5.0 USD = 500).  Prices are      *)
(* cents per share (0.50 = 50).  Upstream sizes are whole shares.          *)
(* Position sizes are hundredths of a share.  The REAL columns of the      *)
(* store are modelled in exact arithmetic on these units; the inputs are   *)
(* chosen so that every quotient the model takes is exact.                 *)
(*                                                                         *)
(* Time.  The age of an upstream trade is kept in seconds.  Two clocks of   *)
(* the program are abstracted to flags: the date of a trade row against    *)
(* date.today() (today or not), and the age of a dedup entry against the   *)
(* 7-day expiry (old or not).                                              *)
(***************************************************************************)
EXTENDS Integers, Sequences, FiniteSets, TLC

NULL == "NULL"
\* None in a numeric column or variable
NONE == 0 - 1

\* ---------------------------------------------------------------- settings
\* config.py defaults, in cents / percent / seconds.
CopyPercentage == 10
MaxSlippagePct == 2
OrderMode == "limit"
MinCopySize == 500
MaxCopySize == 10000
MaxDailySpend == 50000
MaxTradeAge == 300

\* ------------------------------------------------------------------ bounds
MaxRows == 3
MaxOrders == 2

\* -------------------------------------------------------- upstream universe
User == "alice"
Traders == <<"0xaa", "0xbb">>
TraderSet == {"0xaa", "0xbb"}

\* The upstream trades the data API can return.  Fields follow the payload
\* keys the code reads: id, transactionHash, asset_id, asset, timestamp, side, size,
\* price.  ts is "" when the payload carries no timestamp (missing, 0 or
\* empty), in which case _parse_trade_time returns None.  u4 carries no
\* token under any of the keys, u5 no side.
UT ==
  [ u1 |-> [trader |-> "0xaa", id |-> NULL, txHash |-> "0xh1", asset_id |-> "tok1", asset |-> NULL,
            ts |-> "1001", side |-> "BUY", size |-> 2000, price |-> 50],
    u2 |-> [trader |-> "0xaa", id |-> NULL, txHash |-> "0xh2", asset_id |-> NULL, asset |-> "tok2",
            ts |-> "", side |-> "BUY", size |-> 0, price |-> 0],
    u3 |-> [trader |-> "0xbb", id |-> NULL, txHash |-> "0xh3", asset_id |-> "tok1", asset |-> NULL,
            ts |-> "1003", side |-> "SELL", size |-> 2000, price |-> 50],
    u4 |-> [trader |-> "0xaa", id |-> NULL, txHash |-> "0xh4", asset_id |-> NULL, asset |-> NULL,
            ts |-> "1004", side |-> "BUY", size |-> 2000, price |-> 50],
    u5 |-> [trader |-> "0xbb", id |-> NULL, txHash |-> "0xh5", asset_id |-> "tok2", asset |-> NULL,
            ts |-> "1005", side |-> "", size |-> 2000, price |-> 50] ]
UIds == DOMAIN UT

\* Per-trader override rows the PATCH endpoint can store (server.py
\* copy_update_trader accepts any value >= 0 for each numeric key).
NoOverrides == [min_copy_size |-> NONE, max_copy_size |-> NONE, max_daily_spend |-> NONE]
\* The upstream trades of one run: each run draws a small set of them.
Worlds == {{"u1", "u2"}, {"u1", "u3"}, {"u2", "u3"}}

OverrideChoices ==
  { NoOverrides,
    [min_copy_size |-> 70000, max_copy_size |-> NONE, max_daily_spend |-> NONE] }

\* --------------------------------------------------------------- variables
VARIABLES
  feed,        \* upstream trades currently returned by the data API
  age,         \* seconds since the timestamp of each upstream trade
  seen,        \* seen_trade_ids: set of trade_id
  seenOld,     \* subset of seen whose first_seen is older than the expiry
  rows,        \* trades table, in insertion order
  positions,   \* positions table: <<token, side>> -> row
  followed,    \* followed_traders rows of User: trader -> row
  orders,      \* gateway order calls made so far, in order
  cw,          \* the copy worker thread and its CopyTrader object
  world,       \* the upstream trades that can occur in this run
  fund,        \* funds row of fund 1
  allocs,      \* fund_allocations rows of fund 1: trader_address -> row
  investments, \* fund_investments rows, by id
  resp,        \* what the last fund endpoint call returned
  hist,        \* history: the latest invest and the totals it found
  fw,          \* the fund worker thread and its FundManager object
  sup,         \* the server's engine registry (app.config), its threads and requests
  calc,        \* the last call under observation: its arguments and what it returned
  followed_traders  \* followed_traders rows of all users, and the add requests in progress

vars == <<feed, age, seen, seenOld, rows, positions, followed, orders, cw, world, followed_traders,
          fund, allocs, investments, resp, hist, fw, sup, calc>>

\* The fund side of the state, and the copy side.
fundVars == <<fund, allocs, investments, resp, hist, fw>>
copyVars == <<age, seenOld, followed, cw, world, followed_traders, sup, calc>>

\* ----------------------------------------------------------------- helpers
Max(a, b) == IF a >= b THEN a ELSE b
Min(a, b) == IF a <= b THEN a ELSE b

\* n/d rounded to the nearest integer, ties to even (Python's round()).
RoundDiv(n, d) ==
  LET q == n \div d
      r == n % d
  IN IF 2 * r > d \/ (2 * r = d /\ q % 2 = 1) THEN q + 1 ELSE q

UOrder == <<"u1", "u2", "u3", "u4", "u5">>

RECURSIVE SelectIds(_, _)
SelectIds(s, S) ==
  IF s = <<>> THEN <<>>
  ELSE IF Head(s) \in S THEN <<Head(s)>> \o SelectIds(Tail(s), S)
       ELSE SelectIds(Tail(s), S)

\* client.get_trader_trades: the trades of one address, as a list.
GetTraderTrades(addr) == SelectIds(UOrder, {u \in feed : UT[u].trader = addr})

\* CopyTrader._get_trade_id
GetTradeId(t) ==
  IF t.id # NULL THEN t.id
  ELSE IF t.txHash # NULL THEN t.txHash
  ELSE (IF t.asset_id # NULL THEN t.asset_id ELSE IF t.asset # NULL THEN t.asset ELSE "")
       \o "_" \o t.ts

\* trade.get("asset_id") or trade.get("token_id") or trade.get("asset")
TokenOf(t) == IF t.asset_id # NULL THEN t.asset_id ELSE t.asset

\* CopyTrader._parse_trade_time: None when there is no timestamp.
ParseTradeTime(t) == IF t.ts = "" THEN NULL ELSE t.ts

\* CopyTrader._resolve_settings
ResolveOverrides(ov) ==
  [ copy_percentage |-> CopyPercentage,
    min_copy_size   |-> IF ov.min_copy_size # NONE THEN ov.min_copy_size ELSE MinCopySize,
    max_copy_size   |-> IF ov.max_copy_size # NONE THEN ov.max_copy_size ELSE MaxCopySize,
    max_daily_spend |-> IF ov.max_daily_spend # NONE THEN ov.max_daily_spend ELSE MaxDailySpend,
    limit_order_pct |-> MaxSlippagePct,
    order_mode      |-> OrderMode ]

\* The worker resolves the settings from the trader dict it holds, that is,
\* from the follow list as it last loaded it.
ResolveSettings(tr) == ResolveOverrides(cw.ovs[tr])

\* db.get_daily_spend(strategy, user) over a list of rows.
RECURSIVE DailySpendIn(_, _)
DailySpendIn(rs, strategy) ==
  IF rs = <<>> THEN 0
  ELSE (IF Head(rs).strategy = strategy /\ Head(rs).status = "executed"
           /\ Head(rs).today /\ Head(rs).user = User
        THEN Head(rs).amount ELSE 0) + DailySpendIn(Tail(rs), strategy)

GetDailySpend == DailySpendIn(rows, "copy")

\* db.get_trader_daily_spend(trader, user) over a list of rows.
RECURSIVE TraderDailySpendIn(_, _)
TraderDailySpendIn(rs, tr) ==
  IF rs = <<>> THEN 0
  ELSE (IF Head(rs).strategy = "copy" /\ Head(rs).status = "executed"
           /\ Head(rs).today /\ Head(rs).copied_from = tr /\ Head(rs).user = User
        THEN Head(rs).amount ELSE 0) + TraderDailySpendIn(Tail(rs), tr)

GetTraderDailySpend(tr) == TraderDailySpendIn(rows, tr)

\* Variant of TooOld: a trade of exactly max_trade_age seconds is rejected too.
TooOldInclusive(age_seconds) == age_seconds >= MaxTradeAge

\* should_copy step 2 (and poll_fund_traders): age_seconds > max_trade_age
TooOld(age_seconds) == age_seconds > MaxTradeAge

\* Variant of ValidSide: every side is let through.
ValidSideAny(side) == TRUE

\* should_copy step 4: side in ("BUY", "SELL")
ValidSide(side) == side \in {"BUY", "SELL"}

\* Variant of MarksSeen: every rejection of a fresh candidate marks it seen.
MarksSeenAlways(reason) == reason \notin {"ok", "already_seen"}

\* should_copy calls mark_trade_seen on the rejections that can never be
\* lifted (lines 207, 217, 223), not on the budget ones (lines 229, 235).
MarksSeen(reason) == reason \in {"too_old", "no_token_id", "invalid_side"}

\* The reason CopyTrader.should_copy returns, its checks in order.
ShouldCopyReason(u) ==
  LET t == UT[u]
      tr == t.trader
      resolved == ResolveSettings(tr)
  IN IF GetTradeId(t) \in seen THEN "already_seen"
     ELSE IF ParseTradeTime(t) # NULL /\ TooOld(age[u]) THEN "too_old"
     ELSE IF TokenOf(t) = NULL THEN "no_token_id"
     ELSE IF ~ValidSide(t.side) THEN "invalid_side"
     ELSE IF GetDailySpend >= MaxDailySpend THEN "global_daily_limit_reached"
     ELSE IF GetTraderDailySpend(tr) >= resolved.max_daily_spend
       THEN "trader_daily_limit_reached"
     ELSE "ok"

\* CopyTrader.should_copy: the verdict, and whether the id is marked seen.
ShouldCopy(u) ==
  LET reason == ShouldCopyReason(u)
  IN [ok |-> reason = "ok", reason |-> reason, mark |-> MarksSeen(reason)]

\* CopyTrader.calculate_copy_size, in cents.  Intermediate values are kept
\* in hundredths of a cent so that the percentage is exact before rounding.
CopySize(size, price, resolved, global_remaining, trader_remaining) ==
  LET original_usd == IF price > 0 THEN size * price ELSE size * 100
      c0 == original_usd * resolved.copy_percentage
      c1 == Max(c0, resolved.min_copy_size * 100)
      c2 == Min(c1, resolved.max_copy_size * 100)
      c3 == IF c2 > global_remaining * 100 THEN global_remaining * 100 ELSE c2
      c4 == IF c3 > trader_remaining * 100 THEN trader_remaining * 100 ELSE c3
  IN IF original_usd <= 0 THEN resolved.min_copy_size
     ELSE RoundDiv(c4, 100)

\* calculate_copy_size on a trade of the feed, with the settings resolved for
\* its trader and the budgets left today.
CalculateCopySize(u) ==
  LET t == UT[u]
      resolved == ResolveSettings(t.trader)
  IN CopySize(t.size, t.price, resolved,
              MaxDailySpend - GetDailySpend,
              resolved.max_daily_spend - GetTraderDailySpend(t.trader))

\* Prices of _calculate_limit_price are kept in 1/10000 USD, the four decimals
\* of round(limit, 4); PriceOne is 1.0, the cap is 0.99 and the floor 0.01.
PriceOne == 10000
MaxLimitPrice == 9900
MinLimitPrice == 100

\* CopyTrader._calculate_limit_price on a trader price in 1/10000 USD and a
\* slippage in 1/100 percent (slippage_pct / 100 of the code is then
\* slippage_bp / PriceOne), or None when the trader's price is unavailable
\* (NONE).  BUY is only capped, SELL is only floored.
LimitPrice(trader_price, side, slippage_bp) ==
  IF trader_price <= 0 THEN NONE
  ELSE IF side = "BUY"
       THEN Min(RoundDiv(trader_price * (PriceOne + slippage_bp), PriceOne), MaxLimitPrice)
       ELSE Max(RoundDiv(trader_price * (PriceOne - slippage_bp), PriceOne), MinLimitPrice)

\* CopyTrader._calculate_limit_price on a trade of the feed (price in cents,
\* slippage in whole percent).
CalculateLimitPrice(t, side, slippage_pct) ==
  LimitPrice(t.price * 100, side, slippage_pct * 100)

\* No pure call in progress.
NoCalc == [fn |-> "none", done |-> FALSE, out |-> NONE]

\* ------------------------------------------------------------- positions
Tokens == {"tok1", "tok2"}
PosKeys == Tokens \X {"LONG", "SHORT"}
\* size in hundredths of a share; avg and cur in cents per share; pnl in cents.
NoPosition == [status |-> "none", size |-> 0, cost |-> 0, avg |-> 0, cur |-> 0, pnl |-> 0]

\* db.upsert_position on a positions table.  A row is keyed by (user, token,
\* side) under the UNIQUE constraint; the INSERT of the else-branch raises
\* IntegrityError when a closed row with the key exists, which leaves the
\* table unchanged (the transaction rolls back).
UpsertPosition(pos, token, side, trade_amount, trade_price) ==
  LET pos_side == IF side = "BUY" THEN "LONG" ELSE "SHORT"
      k == <<token, pos_side>>
      existing == pos[k]
      delta == IF trade_price > 0 THEN (trade_amount * 100) \div trade_price
               ELSE trade_amount
      old_cost == existing.cost
      old_size == existing.size
      new == IF side = "BUY" /\ pos_side = "LONG"
               THEN [cost |-> old_cost + trade_amount, size |-> old_size + delta]
             ELSE IF side = "SELL" /\ pos_side = "LONG"
               THEN [cost |-> IF old_size > 0
                                THEN (old_cost * Max(0, old_size - delta)) \div old_size
                                ELSE 0,
                     size |-> Max(0, old_size - delta)]
             ELSE [cost |-> old_cost + trade_amount, size |-> old_size + delta]
      new_avg == IF side = "SELL" /\ pos_side = "LONG" THEN existing.avg
                 ELSE IF new.size > 0 THEN (new.cost * 100) \div new.size ELSE 0
  IN IF existing.status = "open"
       THEN IF new.size * 10 <= 1
              THEN [pos EXCEPT ![k] = [existing EXCEPT !.status = "closed", !.size = 0,
                                                       !.cost = 0]]
              ELSE [pos EXCEPT ![k] = [existing EXCEPT !.size = new.size,
                                                       !.cost = new.cost, !.avg = new_avg]]
     ELSE IF existing.status = "closed" THEN pos
     ELSE [pos EXCEPT ![k] = [status |-> "open", size |-> delta, cost |-> trade_amount,
                              avg |-> trade_price, cur |-> trade_price, pnl |-> 0]]

\* ------------------------------------------------------------- fund store
\* The REAL columns of funds and fund_investments hold binary floating-point
\* numbers, and every UPDATE rounds its result to the nearest one.  The model
\* keeps that rounding with a short significand: a value is k * 2^e with
\* |k| < 2^SignificandBits and e >= 0, in cents.
SignificandBits == 4

RECURSIVE Pow2(_)
Pow2(e) == IF e = 0 THEN 1 ELSE 2 * Pow2(e - 1)

\* The exponent at which n/d (n >= 0, d > 0) fits the significand.
RECURSIVE FlExp(_, _, _)
FlExp(n, d, e) == IF n < d * Pow2(SignificandBits + e) THEN e ELSE FlExp(n, d, e + 1)

\* n/d rounded to the nearest representable value, ties to even.
FlQ(n, d) ==
  LET a == IF n < 0 THEN 0 - n ELSE n
      q == Pow2(FlExp(a, d, 0))
      r == RoundDiv(a, d * q) * q
  IN IF n < 0 THEN 0 - r ELSE r

\* One floating-point addition, subtraction, multiplication of stored values.
FlAdd(x, y) == FlQ(x + y, 1)
FlSub(x, y) == FlQ(x - y, 1)

\* nav_per_share is kept in millionths (round(nav, 6)); 1.0 is NavOne.
NavOne == 1000000

\* amount / nav (db.invest_in_fund) and shares * nav (db.withdraw_from_fund)
FlDivNav(amount, nav) == FlQ(amount * NavOne, nav)
FlMulNav(shares, nav) == FlQ(shares * nav, NavOne)

Investors == {User, "bob"}
MaxInvestments == 3
\* Amounts a caller can post to the invest endpoint, in cents.
Amounts == {0, 3, 8, 9}

NoResp == [op |-> "none", code |-> 0, value |-> 0]
NoHist == [id |-> 0, aum |-> 0, shares |-> 0, amount |-> 0, done |-> FALSE, returned |-> 0]

InitialFund ==
  [active |-> TRUE, owner |-> User, total_aum |-> 0, total_shares |-> 0,
   nav_per_share |-> NavOne, perf |-> NONE]

\* Variant of WithdrawalAmount: the payout is rounded to whole dollars.
WithdrawalAmountRounded(shares, nav) == RoundDiv(FlMulNav(shares, nav), 100) * 100

\* db.withdraw_from_fund: withdrawal_amount = shares * nav_per_share
WithdrawalAmount(shares, nav) == FlMulNav(shares, nav)

\* server.invest_in_fund -> db.invest_in_fund
InvestInFund(investor, amount) ==
  /\ Len(investments) < MaxInvestments
  /\ IF amount <= 0 \/ ~fund.active
       THEN /\ resp' = [op |-> "invest", code |-> 400, value |-> 0]
            /\ UNCHANGED <<fund, investments, hist>>
       ELSE LET nav == fund.nav_per_share
                shares == FlDivNav(amount, nav)
            IN /\ investments' = Append(investments,
                     [investor |-> investor, amount_invested |-> amount,
                      shares |-> shares, status |-> "active"])
               /\ fund' = [fund EXCEPT !.total_aum = FlAdd(@, amount),
                                       !.total_shares = FlAdd(@, shares)]
               /\ resp' = [op |-> "invest", code |-> 200, value |-> shares]
               /\ hist' = [id |-> Len(investments) + 1, aum |-> fund.total_aum,
                           shares |-> fund.total_shares, amount |-> amount,
                           done |-> FALSE, returned |-> 0]
  /\ UNCHANGED <<feed, seen, rows, positions, orders, copyVars, allocs, fw>>

\* server.withdraw_investment -> db.withdraw_from_fund
WithdrawInvestment(id, caller) ==
  /\ id \in 1..MaxInvestments
  /\ IF id > Len(investments) \/ investments[id].investor # caller
        \/ investments[id].status # "active"
       THEN /\ resp' = [op |-> "withdraw", code |-> 400, value |-> 0]
            /\ UNCHANGED <<fund, investments, hist>>
       ELSE LET inv == investments[id]
                withdrawal_amount == WithdrawalAmount(inv.shares, fund.nav_per_share)
            IN /\ investments' = [investments EXCEPT ![id].status = "withdrawn"]
               /\ fund' = [fund EXCEPT !.total_aum = FlSub(@, withdrawal_amount),
                                       !.total_shares = FlSub(@, inv.shares)]
               /\ resp' = [op |-> "withdraw", code |-> 200, value |-> withdrawal_amount]
               /\ hist' = IF id = hist.id /\ ~hist.done
                            THEN [hist EXCEPT !.done = TRUE, !.returned = withdrawal_amount]
                            ELSE NoHist
  /\ UNCHANGED <<feed, seen, rows, positions, orders, copyVars, allocs, fw>>

\* Variant of NavOf: the AUM is marked up by a cent before the division.
NavOfMarked(f) ==
  IF f.total_shares <= 0 THEN NavOne
  ELSE RoundDiv((f.total_aum + 1) * NavOne, f.total_shares)

\* FundManager.update_fund_nav: NAV = total_aum / total_shares, or 1.0
\* without shares, rounded to six places.
NavOf(f) ==
  IF f.total_shares <= 0 THEN NavOne ELSE RoundDiv(f.total_aum * NavOne, f.total_shares)

\* update_fund_nav -> db.record_fund_performance on a funds row
UpdateFundNav(f) == [f EXCEPT !.nav_per_share = NavOf(f), !.perf = NavOf(f)]

\* The fund worker's periodic NAV update, taken on its own.
NavUpdate ==
  /\ fund' = UpdateFundNav(fund)
  /\ hist' = NoHist
  /\ UNCHANGED <<feed, seen, rows, positions, orders, copyVars, allocs, investments,
                 resp, fw>>

\* ------------------------------------------------------------ allocations
\* Addresses a request can name, and the form the store keeps (lower()).
\* "0x" stands for a string that is not a 42-character 0x address.
ReqAddrs == {"0xaa", "0xAA", "0xbb", "0xcc", "0x"}
ValidAddress(addr) == addr # "0x"
AllocAddrs == <<"0xaa", "0xbb", "0xcc">>
Lower(addr) == IF addr = "0xAA" THEN "0xaa" ELSE addr

\* Weights are thousandths.  The requests here carry 0, 0.5, 0.51 and 0.52, so
\* that their sums reach 1.0, 1.01 and 1.02.
WeightOne == 1000
WeightTolerance == 10
ReqWeights == {0, 500, 510, 520}
MaxAllocs == 2
NoAlloc == [weight |-> NONE, active |-> FALSE]

AllocEntries == [trader_address : ReqAddrs, weight : ReqWeights]
AllocRequests == UNION {[1..n -> AllocEntries] : n \in 1..MaxAllocs}

RECURSIVE SumWeights(_)
SumWeights(req) == IF req = <<>> THEN 0 ELSE Head(req).weight + SumWeights(Tail(req))

\* db.set_fund_allocations: deactivate every row, then upsert each entry
\* of the request, in order, under its lower-cased address.
RECURSIVE UpsertAllocs(_, _)
UpsertAllocs(tbl, req) ==
  IF req = <<>> THEN tbl
  ELSE UpsertAllocs([tbl EXCEPT ![Lower(Head(req).trader_address)] =
                       [weight |-> Head(req).weight, active |-> TRUE]], Tail(req))

SetFundAllocations(tbl, req) ==
  UpsertAllocs([a \in DOMAIN tbl |-> [tbl[a] EXCEPT !.active = FALSE]], req)

\* Funds a request can name: fund 1 exists, fund 2 does not.
FundIds == {1, 2}

\* Variant of OffTolerance: the comparison in exact arithmetic, under which a
\* sum of exactly 1.01 or 0.99 is within the tolerance.
OffToleranceExact(total_weight) ==
  total_weight - WeightOne > WeightTolerance \/ WeightOne - total_weight > WeightTolerance

\* set_allocations, line 1244: abs(total_weight - 1.0) > 0.01 on doubles.
\* 1.01 - 1.0 and 1.0 - 0.99 both evaluate to 0.010000000000000009, which
\* is greater than the double 0.01, so a sum of exactly 1.01 or 0.99 is off;
\* sums from 0.991 to 1.009 are not.  (For every sum of up to four of
\* ReqWeights the double result is the one given here.)
OffTolerance(total_weight) ==
  total_weight - WeightOne >= WeightTolerance \/ WeightOne - total_weight >= WeightTolerance

\* server.set_allocations (PUT /api/funds/<fund_id>/allocations), and
\* db.get_fund, which finds no row for fund 2.  calc keeps what the request
\* asked for and the status code it was answered with.
SetAllocations(fund_id, req, caller) ==
  LET code == IF req = <<>> THEN 400
              ELSE IF OffTolerance(SumWeights(req)) THEN 400
              ELSE IF \E i \in 1..Len(req) :
                         ~ValidAddress(req[i].trader_address) \/ req[i].weight <= 0
                THEN 400
              ELSE IF fund_id # 1 \/ fund.owner # caller THEN 404
              ELSE 200
      value == IF req = <<>> THEN 0
               ELSE IF OffTolerance(SumWeights(req)) THEN 1
               ELSE IF code = 400 THEN 2
               ELSE 0
  IN
  /\ resp' = [op |-> "allocations", code |-> code, value |-> value]
  /\ allocs' = IF code = 200 THEN SetFundAllocations(allocs, req) ELSE allocs
  /\ calc' = [fn |-> "set_allocations", fund_id |-> fund_id, caller |-> caller,
              total_weight |-> SumWeights(req),
              nonpositive |-> \E i \in 1..Len(req) : req[i].weight <= 0,
              malformed |-> \E i \in 1..Len(req) : ~ValidAddress(req[i].trader_address),
              done |-> TRUE, code |-> code]
  /\ UNCHANGED <<feed, age, seen, seenOld, rows, positions, followed, orders, cw,
                 world, followed_traders, sup, fund, investments, hist, fw>>

\* Sum of the weights of the active allocations.
RECURSIVE ActiveWeightIn(_, _)
ActiveWeightIn(tbl, as) ==
  IF as = <<>> THEN 0
  ELSE (IF tbl[Head(as)].active THEN tbl[Head(as)].weight ELSE 0)
       + ActiveWeightIn(tbl, Tail(as))

ActiveWeight == ActiveWeightIn(allocs, AllocAddrs)

\* handle: app.config["fund_manager"] holds the worker's FundManager object.
IdleFundWorker ==
  [pc |-> "dead", running |-> FALSE, handle |-> FALSE, dry |-> FALSE, funds |-> <<>>,
   allocs |-> <<>>,
   ai |-> 0, queue |-> <<>>, cur |-> NULL, amount |-> 0, status |-> NULL]

FundIdle ==
  /\ fund = InitialFund
  /\ allocs = [a \in {"0xaa", "0xbb", "0xcc"} |-> NoAlloc]
  /\ investments = <<>>
  /\ resp = NoResp
  /\ hist = NoHist
  /\ fw = IdleFundWorker

\* ------------------------------------------------------------ copy worker
\* handle: app.config["copy_trader"] holds the worker's CopyTrader object.
\* traders, ovs: the list of trader dicts run() holds, as addresses and as
\* the override columns of each dict.
IdleWorker ==
  [pc |-> "dead", running |-> FALSE, handle |-> FALSE, dry |-> FALSE, traders |-> <<>>,
   ovs |-> [tr \in TraderSet |-> NoOverrides],
   ti |-> 0, queue |-> <<>>, cur |-> NULL, amount |-> 0,
   mode |-> NULL, result |-> NULL, status |-> NULL, reason |-> ""]

\* The override columns of the rows db.get_active_traders returns.
StoredOverrides == [tr \in TraderSet |-> followed[tr].ov]

\* db.get_active_traders(user), ORDER BY added_at
GetActiveTraders == SelectIds(Traders, {tr \in TraderSet : followed[tr].active})

\* ------------------------------------------------------------- supervisor
\* The server keeps one CopyTrader object and one thread per engine kind in
\* app.config.  Requests are served by concurrent threads (async_mode
\* "threading"), so the check of copy_start and what follows it are two steps.
MaxThreads == 2
MaxRequests == 2
Users == {User, "bob"}

NoThread == [pc |-> "none", running |-> FALSE, user |-> NULL]
NoRequest == [pc |-> "idle", user |-> NULL]
NoCall == [op |-> "none", user |-> NULL, code |-> 0]

SupIdle ==
  [copy_trader |-> 0, copy_thread |-> 0,
   thread |-> [t \in 1..MaxThreads |-> NoThread],
   req |-> [r \in 1..MaxRequests |-> NoRequest],
   emitted |-> "stopped", stops |-> {}, last |-> NoCall]

\* threading.Thread.is_alive
IsAlive(th) == th.pc \in {"spawned", "loop"}

\* _build_status_payload, the copy_trading entry
BuildStatusPayload(s) ==
  IF s.copy_thread # 0 /\ IsAlive(s.thread[s.copy_thread]) THEN "running" ELSE "stopped"

\* db.get_active_traders(user_address): the caller's follow list.
ActiveTradersOf(who) == IF who = User THEN GetActiveTraders ELSE <<"0xbb">>

\* server.copy_start, line 519: the liveness test of the registered thread.
CopyStartCheck(r, who) ==
  /\ sup.req[r].pc = "idle"
  /\ sup' = IF sup.copy_thread # 0 /\ IsAlive(sup.thread[sup.copy_thread])
              THEN [sup EXCEPT !.last = [op |-> "start", user |-> who, code |-> 400]]
              ELSE [sup EXCEPT !.req[r] = [pc |-> "checked", user |-> who]]
  /\ UNCHANGED <<feed, age, seen, seenOld, rows, positions, followed, orders, cw,
                 world, followed_traders, calc, fundVars>>

\* server.copy_start, lines 547-562: build the CopyTrader, register it, start
\* its thread, register the thread, emit the status.
CopyStartSpawn(r) ==
  /\ sup.req[r].pc = "checked"
  /\ \E t \in 1..MaxThreads :
       /\ sup.thread[t].pc = "none"
       /\ \A k \in 1..(t - 1) : sup.thread[k].pc # "none"
       /\ LET s1 == [sup EXCEPT !.copy_trader = t, !.copy_thread = t,
                                !.thread[t] = [pc |-> "spawned", running |-> FALSE,
                                               user |-> sup.req[r].user],
                                !.req[r] = NoRequest,
                                !.last = [op |-> "start", user |-> sup.req[r].user,
                                          code |-> 200]]
          IN sup' = [s1 EXCEPT !.emitted = BuildStatusPayload(s1)]
  /\ UNCHANGED <<feed, age, seen, seenOld, rows, positions, followed, orders, cw,
                 world, followed_traders, calc, fundVars>>

\* server.copy_stop: CopyTrader.stop on the registered object, which is then
\* dropped from the registry; the status is emitted as it is at that moment.
CopyStopRequest(who) ==
  /\ sup' = IF sup.copy_trader = 0
              THEN [sup EXCEPT !.last = [op |-> "stop", user |-> who, code |-> 400]]
              ELSE [sup EXCEPT !.thread[sup.copy_trader].running = FALSE,
                               !.copy_trader = 0,
                               !.stops = @ \cup {sup.copy_trader},
                               !.emitted = BuildStatusPayload(sup),
                               !.last = [op |-> "stop", user |-> who, code |-> 200]]
  /\ UNCHANGED <<feed, age, seen, seenOld, rows, positions, followed, orders, cw,
                 world, followed_traders, calc, fundVars>>

\* CopyTrader.run, lines 535-543: set _running, load the follow list, return
\* when it is empty.
ThreadRunBegin(t) ==
  /\ sup.thread[t].pc = "spawned"
  /\ sup' = [sup EXCEPT !.thread[t].running = TRUE,
                        !.thread[t].pc =
                           IF ActiveTradersOf(sup.thread[t].user) = <<>> THEN "dead"
                           ELSE "loop"]
  /\ UNCHANGED <<feed, age, seen, seenOld, rows, positions, followed, orders, cw,
                 world, followed_traders, calc, fundVars>>

\* CopyTrader.run, lines 603-655, over an empty feed: an iteration polls, finds
\* nothing and sleeps; with _running cleared the loop ends and the thread dies.
ThreadLoop(t) ==
  /\ sup.thread[t].pc = "loop"
  /\ sup' = IF sup.thread[t].running
              THEN sup
              ELSE [sup EXCEPT !.thread[t].pc = "dead"]
  /\ UNCHANGED <<feed, age, seen, seenOld, rows, positions, followed, orders, cw,
                 world, followed_traders, calc, fundVars>>

\* ------------------------------------------------------- followed traders
\* The followed_traders table as the add and remove operations see it: rows
\* in insertion order, of every user.  The table has no UNIQUE constraint
\* (db.py lines 33-40 and the migration).  user_address is NULL for a row
\* added without a user (cli: db.add_trader(db_path, address, alias)).
MaxFollowRows == 3
MaxCopied == 1
Callers == Users \cup {NULL}

NoAdd == [pc |-> "idle", address |-> NULL, user_address |-> NULL]
FollowIdle == [rows |-> <<>>, req |-> [r \in 1..MaxRequests |-> NoAdd]]

\* SQL "column = ?": never true when the parameter is NULL.
SqlEq(column, param) == param # NULL /\ column # NULL /\ column = param

\* The rows a WHERE address = ? AND user_address = ? AND active = ? selects.
FollowMatches(address, user_address, active) ==
  {i \in 1..Len(followed_traders.rows) :
     /\ followed_traders.rows[i].address = address
     /\ SqlEq(followed_traders.rows[i].user_address, user_address)
     /\ followed_traders.rows[i].active = active}

\* db.add_trader, lines 443-448: the SELECT for an active row, read outside
\* the write transaction (sqlite3 opens it at the first UPDATE).  Requests
\* are served by concurrent threads, each on its own connection.
AddTraderSelect(r, address, user_address) ==
  /\ followed_traders.req[r].pc = "idle"
  /\ FollowMatches(address, user_address, TRUE) = {}
  /\ followed_traders' =
       [followed_traders EXCEPT !.req[r] = [pc |-> "write", address |-> address,
                                            user_address |-> user_address]]
  /\ UNCHANGED <<feed, age, seen, seenOld, rows, positions, followed, orders, cw,
                 world, sup, calc, fundVars>>

\* db.add_trader, lines 449-459: one write transaction that reactivates the
\* inactive rows of the pair or, when there is none, inserts a new row.
AddTraderWrite(r) ==
  LET q == followed_traders.req[r]
      inactive == FollowMatches(q.address, q.user_address, FALSE)
  IN
  /\ q.pc = "write"
  /\ IF inactive # {}
       THEN followed_traders' =
              [followed_traders EXCEPT
                 !.rows = [i \in 1..Len(@) |->
                             IF i \in inactive THEN [@[i] EXCEPT !.active = TRUE]
                             ELSE @[i]],
                 !.req[r] = NoAdd]
       ELSE /\ Len(followed_traders.rows) < MaxFollowRows
            /\ followed_traders' =
                 [followed_traders EXCEPT
                    !.rows = Append(@, [address |-> q.address,
                                        user_address |-> q.user_address,
                                        active |-> TRUE, total_copied |-> 0]),
                    !.req[r] = NoAdd]
  /\ UNCHANGED <<feed, age, seen, seenOld, rows, positions, followed, orders, cw,
                 world, sup, calc, fundVars>>

\* db.remove_trader: active = 0 on the rows of the address, of the user when
\* one is given and of every user otherwise.
RemoveTrader(address, user_address) ==
  /\ followed_traders' =
       [followed_traders EXCEPT
          !.rows = [i \in 1..Len(@) |->
                      IF /\ @[i].address = address
                         /\ (user_address = NULL \/ SqlEq(@[i].user_address, user_address))
                        THEN [@[i] EXCEPT !.active = FALSE]
                        ELSE @[i]]]
  /\ UNCHANGED <<feed, age, seen, seenOld, rows, positions, followed, orders, cw,
                 world, sup, calc, fundVars>>

\* db.update_trader_stats on the table: total_copied + 1 on the rows of the
\* address, of the user when one is given.
UpdateTraderStatsRows(address, user_address) ==
  LET hit == {i \in 1..Len(followed_traders.rows) :
                /\ followed_traders.rows[i].address = address
                /\ (user_address = NULL
                      \/ SqlEq(followed_traders.rows[i].user_address, user_address))}
  IN
  /\ hit # {}
  /\ \A i \in hit : followed_traders.rows[i].total_copied < MaxCopied
  /\ followed_traders' =
       [followed_traders EXCEPT
          !.rows = [i \in 1..Len(@) |->
                      IF i \in hit THEN [@[i] EXCEPT !.total_copied = @ + 1] ELSE @[i]]]
  /\ UNCHANGED <<feed, age, seen, seenOld, rows, positions, followed, orders, cw,
                 world, sup, calc, fundVars>>

\* Variant of MarkTradeSeen: the insert is lost.
MarkTradeSeenDropped(S, id) == S

\* db.mark_trade_seen: INSERT OR IGNORE keeps the first_seen of an old entry.
MarkTradeSeen(S, id) == S \cup {id}

\* CopyTrader._initial_scan_trader on the list the fetch returned
ScanMarks(trades) == {GetTradeId(UT[trades[i]]) : i \in 1..Len(trades)}

InitStore ==
  /\ age = [u \in UIds |-> 0]
  /\ seen = {}
  /\ seenOld = {}
  /\ rows = <<>>
  /\ positions = [k \in PosKeys |-> NoPosition]
  /\ \E ov \in OverrideChoices :
       followed = [tr \in TraderSet |->
                     [active |-> TRUE, total_copied |-> 0, total_spent |-> 0,
                      ov |-> IF tr = "0xaa" THEN ov ELSE NoOverrides]]
  /\ orders = <<>>
  /\ cw = IdleWorker
  /\ world \in Worlds
  /\ sup = SupIdle
  /\ followed_traders = FollowIdle
  /\ calc = NoCalc
  /\ FundIdle

Init ==
  /\ InitStore
  /\ feed = {}

\* server.copy_start: refused while the copy thread is alive; otherwise a
\* CopyTrader is built (_running False), registered, and its thread started.
CopyStart(dry_run) ==
  /\ cw.pc = "dead"
  /\ cw' = [IdleWorker EXCEPT !.pc = "start", !.dry = dry_run, !.handle = TRUE]
  /\ UNCHANGED <<feed, age, seen, seenOld, rows, positions, followed, orders, world, followed_traders, sup, calc, fundVars>>

\* server.copy_stop -> CopyTrader.stop on the registered object, which is
\* then dropped from the registry; refused when none is registered.
CopyStop ==
  /\ cw.handle
  /\ cw' = [cw EXCEPT !.running = FALSE, !.handle = FALSE]
  /\ UNCHANGED <<feed, age, seen, seenOld, rows, positions, followed, orders, world, followed_traders, sup, calc, fundVars>>

\* CopyTrader.run, lines 535-543: set _running, load the follow list.
RunBegin ==
  /\ cw.pc = "start"
  /\ cw' = IF GetActiveTraders = <<>>
             THEN [cw EXCEPT !.pc = "dead", !.running = TRUE]
             ELSE [cw EXCEPT !.pc = "scan", !.running = TRUE,
                             !.traders = GetActiveTraders, !.ovs = StoredOverrides,
                             !.ti = 1]
  /\ UNCHANGED <<feed, age, seen, seenOld, rows, positions, followed, orders, world, followed_traders, sup, calc, fundVars>>

\* CopyTrader.run, lines 580-589: one pass of the initial-scan loop.  The
\* fetch returns the trader's list, or [] on a transport error.
ScanTrader(fetch_ok) ==
  /\ cw.pc = "scan"
  /\ IF cw.ti > Len(cw.traders) \/ ~cw.running
       THEN /\ cw' = [cw EXCEPT !.pc = "top", !.ti = 0]
            /\ UNCHANGED seen
       ELSE LET trades == IF fetch_ok THEN GetTraderTrades(cw.traders[cw.ti]) ELSE <<>>
            IN /\ seen' = seen \cup ScanMarks(trades)
               /\ cw' = [cw EXCEPT !.ti = cw.ti + 1]
  /\ UNCHANGED <<feed, age, seenOld, rows, positions, followed, orders, world, followed_traders, sup, calc, fundVars>>

\* CopyTrader.run, lines 603-605: the while test.
LoopTop ==
  /\ cw.pc = "top"
  /\ cw' = IF ~cw.running
             THEN [IdleWorker EXCEPT !.handle = cw.handle]
             ELSE [cw EXCEPT !.pc = "traders", !.ti = 1]
  /\ UNCHANGED <<feed, age, seen, seenOld, rows, positions, followed, orders, world, followed_traders, sup, calc, fundVars>>

\* CopyTrader.run, lines 607-611, and poll_trader's fetch (line 512).
PollTrader(fetch_ok) ==
  /\ cw.pc = "traders"
  /\ cw' = IF cw.ti > Len(cw.traders) \/ ~cw.running
             THEN [cw EXCEPT !.pc = "iter_end", !.ti = 0]
             ELSE [cw EXCEPT !.pc = "cand",
                             !.queue = IF fetch_ok THEN GetTraderTrades(cw.traders[cw.ti])
                                       ELSE <<>>]
  /\ UNCHANGED <<feed, age, seen, seenOld, rows, positions, followed, orders, world, followed_traders, sup, calc, fundVars>>

\* poll_trader's loop body up to the verdict of should_copy (lines 518-526).
CandidateEval ==
  /\ cw.pc = "cand"
  /\ IF cw.queue = <<>>
       THEN /\ cw' = [cw EXCEPT !.pc = "traders", !.ti = cw.ti + 1]
            /\ UNCHANGED seen
       ELSE LET u == Head(cw.queue)
                v == ShouldCopy(u)
            IN /\ v.ok => (Len(rows) < MaxRows /\ Len(orders) < MaxOrders)
               /\ seen' = IF v.mark THEN MarkTradeSeen(seen, GetTradeId(UT[u])) ELSE seen
               /\ cw' = IF v.ok
                          THEN [cw EXCEPT !.pc = "exec", !.cur = u, !.queue = Tail(cw.queue)]
                          ELSE [cw EXCEPT !.queue = Tail(cw.queue)]
  /\ UNCHANGED <<feed, age, seenOld, rows, positions, followed, orders, world, followed_traders, sup, fundVars>>

\* poll_trader, lines 519-529: the next candidate of the fetched list.
Candidate == CandidateEval /\ UNCHANGED calc

\* execute_copy, lines 311-347: size the copy, mark the id seen, pick the mode.
ExecMark ==
  /\ cw.pc = "exec"
  /\ LET t == UT[cw.cur]
         resolved == ResolveSettings(t.trader)
         copy_size == CalculateCopySize(cw.cur)
         limit_price == CalculateLimitPrice(t, t.side, resolved.limit_order_pct)
         use_limit == resolved.order_mode = "limit" /\ limit_price # NONE /\ limit_price > 0
     IN /\ seen' = MarkTradeSeen(seen, GetTradeId(t))
        /\ cw' = IF copy_size <= 0
                   THEN [cw EXCEPT !.pc = "cand", !.cur = NULL]
                   ELSE [cw EXCEPT !.pc = "order", !.amount = copy_size,
                                   !.mode = IF use_limit THEN "LIMIT" ELSE "MARKET"]
  /\ UNCHANGED <<feed, age, seenOld, rows, positions, followed, orders, world, followed_traders, sup, calc, fundVars>>

\* What the order call hands back: a response, an {"error": str(e)} dict (the
\* client turns every exception into one, client.py 276-278; str(e) is empty
\* for an exception raised without a message), or nothing.
OrderResults == {"ok", "error", "error_blank", "empty"}

\* Variant of Sends: the gateway is called in dry-run mode too.
SendsAlways(dry_run) == TRUE

\* "if not self.dry_run": whether an engine calls the gateway (execute_copy
\* line 381, execute_fund_trade line 106, execute_arbitrage line 95).
Sends(dry_run) == ~dry_run

\* Variant of CopyStatus: the truthiness test of the fund engine
\* ("executed" if result else "failed"), which takes an error dict for success.
CopyStatusTruthy(result) == IF result = "empty" THEN "failed" ELSE "executed"

\* execute_copy, lines 394-411: the status a gateway result yields.
CopyStatus(result) == IF result = "ok" THEN "executed" ELSE "failed"

\* execute_copy, lines 396-405: the failure reason kept for the notes.
FailReason(result) ==
  CASE result = "ok" -> ""
    [] result = "error" -> "gateway error"
    [] result = "error_blank" -> ""
    [] OTHER -> "Order returned empty result"

\* execute_copy, lines 379-411: the gateway call and the status it yields.
ExecOrder(result) ==
  /\ cw.pc = "order"
  /\ IF ~Sends(cw.dry)
       THEN /\ cw' = [cw EXCEPT !.pc = "record", !.status = "dry_run", !.reason = ""]
            /\ UNCHANGED orders
       ELSE /\ orders' = Append(orders,
                 [engine |-> "copy", id |-> GetTradeId(UT[cw.cur]),
                  token |-> TokenOf(UT[cw.cur]), side |-> UT[cw.cur].side,
                  amount |-> cw.amount, mode |-> cw.mode])
            /\ cw' = [cw EXCEPT !.pc = "record", !.result = result,
                        !.status = CopyStatus(result), !.reason = FailReason(result)]
  /\ UNCHANGED <<feed, age, seen, seenOld, rows, positions, followed, world, followed_traders, sup, calc, fundVars>>

\* db.update_trader_stats
UpdateTraderStats(f, tr, amount_spent) ==
  [f EXCEPT ![tr].total_copied = @ + 1, ![tr].total_spent = @ + amount_spent]

\* execute_copy, lines 413-499: the trade row, the trader's counters and the
\* position.  An exception of upsert_position is swallowed (lines 449-462).
ExecRecord ==
  /\ cw.pc = "record"
  /\ LET t == UT[cw.cur] IN
       /\ rows' = Append(rows,
            [strategy |-> "copy", user |-> User, token |-> TokenOf(t), side |-> t.side,
             amount |-> cw.amount, price |-> t.price, copied_from |-> t.trader,
             original_trade_id |-> GetTradeId(t), status |-> cw.status,
             notes |-> IF cw.reason # "" THEN cw.reason ELSE NULL, today |-> TRUE])
       /\ followed' = IF cw.status = "executed"
                        THEN UpdateTraderStats(followed, t.trader, cw.amount)
                        ELSE followed
       /\ positions' = IF cw.status = "executed" /\ t.price > 0
                         THEN UpsertPosition(positions, TokenOf(t), t.side, cw.amount, t.price)
                         ELSE positions
  /\ cw' = [cw EXCEPT !.pc = "cand", !.cur = NULL, !.amount = 0, !.mode = NULL,
                      !.result = NULL, !.status = NULL, !.reason = ""]
  /\ UNCHANGED <<feed, age, seen, seenOld, orders, world, followed_traders, sup, calc, fundVars>>

\* db.cleanup_old_seen_trades: entries first seen more than 7 days ago go.
CleanupOldSeenTrades(S, old) == S \ old

\* CopyTrader.run, lines 631-648: when iteration % 20 == 0 reload the follow
\* list (re-scanning when its length changed) and expire the ledger.  The
\* iteration count is not kept: whether this iteration is a twentieth one
\* is the input `periodic`, since any number of idle iterations may have
\* gone before.
IterEnd(periodic, fetch_ok) ==
  /\ cw.pc = "iter_end"
  /\ IF periodic
       THEN LET fresh == GetActiveTraders
                rescan == IF Len(fresh) # Len(cw.traders) /\ fetch_ok
                            THEN UNION {ScanMarks(GetTraderTrades(fresh[i])) :
                                          i \in 1..Len(fresh)}
                            ELSE {}
            IN /\ seen' = CleanupOldSeenTrades(seen \cup rescan, seenOld)
               /\ seenOld' = {}
               /\ cw' = [cw EXCEPT !.pc = "top", !.traders = fresh, !.ovs = StoredOverrides]
       ELSE /\ cw' = [cw EXCEPT !.pc = "top"]
            /\ UNCHANGED <<seen, seenOld>>
  /\ UNCHANGED <<feed, age, rows, positions, followed, orders, world, followed_traders, sup, calc, fundVars>>

\* The process dies (kill, power loss): the thread and its object are gone,
\* the store keeps what was committed.
Crash ==
  /\ cw.pc # "dead"
  /\ cw' = IdleWorker
  /\ UNCHANGED <<feed, age, seen, seenOld, rows, positions, followed, orders, world, followed_traders, sup, calc, fundVars>>

\* ------------------------------------------------------------ environment
\* A followed trader trades: the data API starts returning the trade.
Publish(u) ==
  /\ u \in world \ feed
  /\ feed' = feed \cup {u}
  /\ UNCHANGED <<age, seen, seenOld, rows, positions, followed, orders, cw, world, followed_traders, sup, calc, fundVars>>

\* More than max_trade_age seconds pass since a trade's timestamp.
TradeAges(u) ==
  /\ u \in feed
  /\ ~TooOld(age[u])
  /\ UT[u].ts # ""
  /\ age' = [age EXCEPT ![u] = MaxTradeAge + 1]
  /\ UNCHANGED <<feed, seen, seenOld, rows, positions, followed, orders, cw, world, followed_traders, sup, calc, fundVars>>

\* Time passes to one of the instants around max_trade_age of a trade.
AgeSteps == {MaxTradeAge - 1, MaxTradeAge, MaxTradeAge + 1}
Elapse(u, a) ==
  /\ u \in feed
  /\ UT[u].ts # ""
  /\ a > age[u]
  /\ age' = [age EXCEPT ![u] = a]
  /\ UNCHANGED <<feed, seen, seenOld, rows, positions, followed, orders, cw, world, followed_traders, sup, calc, fundVars>>

RECURSIVE NotToday(_)
NotToday(rs) ==
  IF rs = <<>> THEN <<>> ELSE <<[Head(rs) EXCEPT !.today = FALSE]>> \o NotToday(Tail(rs))

\* The ages once every timestamped trade in the feed is past max_trade_age.
AllOld ==
  [u \in UIds |-> IF u \in feed /\ UT[u].ts # "" /\ ~TooOld(age[u])
                    THEN MaxTradeAge + 1 ELSE age[u]]

\* Midnight: date.today() changes, and every timestamped trade in the feed
\* is older than max_trade_age.
DayPasses ==
  /\ rows' = NotToday(rows)
  /\ age' = AllOld
  /\ UNCHANGED <<feed, seen, seenOld, positions, followed, orders, cw, world, followed_traders, sup, calc, fundVars>>

\* Seven days pass: every ledger entry is older than the expiry.
WeekPasses ==
  /\ rows' = NotToday(rows)
  /\ age' = AllOld
  /\ seenOld' = seen
  /\ UNCHANGED <<feed, seen, positions, followed, orders, cw, world, followed_traders, sup, calc, fundVars>>

\* ------------------------------------------------------------- fund worker
\* db.get_fund_allocations: the active rows, ORDER BY weight DESC.
RECURSIVE SortedAllocs(_, _)
SortedAllocs(tbl, S) ==
  IF S = {} THEN <<>>
  ELSE LET top == CHOOSE a \in S : \A b \in S : tbl[a].weight >= tbl[b].weight
       IN <<[trader_address |-> top, weight |-> tbl[top].weight]>>
          \o SortedAllocs(tbl, S \ {top})

GetFundAllocations == SortedAllocs(allocs, {a \in DOMAIN allocs : allocs[a].active})

\* The trade id of poll_fund_traders (lines 223-227) and of
\* execute_fund_trade (lines 115-119), and the fund-prefixed dedup id.
FundTradeId(t) ==
  IF t.id # NULL THEN t.id
  ELSE (IF t.asset_id # NULL THEN t.asset_id ELSE "") \o "_" \o t.ts

\* Variant of DedupId: the fund worker keys the ledger as the copy worker does.
DedupIdUnscoped(t) == GetTradeId(t)

DedupId(t) == "fund_1_" \o FundTradeId(t)

\* trade.get("asset_id") or trade.get("token_id")
FundTokenOf(t) == t.asset_id

\* FundManager.calculate_fund_copy_size, in cents; weight in thousandths.
\* Intermediate values are scaled by 100000.
CalculateFundCopySize(f, trader_weight, original_usd) ==
  LET c0 == original_usd * CopyPercentage * trader_weight
      max_per_trade == f.total_aum * 5000
      c1 == Min(c0, max_per_trade)
      c2 == Max(c1, MinCopySize * 100000)
      c3 == Min(c2, MaxCopySize * 100000)
  IN IF f.total_aum <= 0 THEN 0 ELSE RoundDiv(c3, 100000)

\* execute_fund_trade, line 112: "executed" if result else "failed".  An
\* error dict is a non-empty dict, hence true.
FundStatus(result) == IF result = "empty" THEN "failed" ELSE "executed"

\* server.fund_engine_start
FundEngineStart(dry_run) ==
  /\ fw.pc = "dead"
  /\ fw' = [IdleFundWorker EXCEPT !.pc = "start", !.dry = dry_run, !.handle = TRUE]
  /\ UNCHANGED <<feed, seen, rows, positions, orders, copyVars, fund, allocs,
                 investments, resp, hist>>

\* server.fund_engine_stop -> FundManager.stop on the registered object, which
\* is then dropped from the registry; refused when none is registered.
FundEngineStop ==
  /\ fw.handle
  /\ fw' = [fw EXCEPT !.running = FALSE, !.handle = FALSE]
  /\ UNCHANGED <<feed, seen, rows, positions, orders, copyVars, fund, allocs,
                 investments, resp, hist>>

\* FundManager.run, lines 266-283: set _running, load the active funds.
FundRunBegin ==
  /\ fw.pc = "start"
  /\ fw' = IF ~fund.active
             THEN [IdleFundWorker EXCEPT !.running = TRUE, !.handle = fw.handle]
             ELSE [fw EXCEPT !.pc = "top", !.running = TRUE, !.funds = <<fund>>]
  /\ UNCHANGED <<feed, seen, rows, positions, orders, copyVars, fund, allocs,
                 investments, resp, hist>>

\* FundManager.run, lines 286-294 and 318-326: the while test; on exit the
\* final NAV update.  poll_fund_traders begins by reading the allocations.
FundLoopTop ==
  /\ fw.pc = "top"
  /\ IF ~fw.running
       THEN /\ fw' = [IdleFundWorker EXCEPT !.handle = fw.handle]
            /\ fund' = IF fw.funds # <<>> THEN UpdateFundNav(fund) ELSE fund
       ELSE /\ fw' = IF fw.funds = <<>>
                       THEN [fw EXCEPT !.pc = "iter_end"]
                       ELSE [fw EXCEPT !.pc = "alloc", !.allocs = GetFundAllocations,
                                       !.ai = 1]
            /\ UNCHANGED fund
  /\ UNCHANGED <<feed, seen, rows, positions, orders, copyVars, allocs, investments,
                 resp, hist>>

\* poll_fund_traders, lines 212-220: the fetch for one allocation.
FundFetch(fetch_ok) ==
  /\ fw.pc = "alloc"
  /\ fw' = IF fw.ai > Len(fw.allocs)
             THEN [fw EXCEPT !.pc = "iter_end", !.ai = 0]
             ELSE [fw EXCEPT !.pc = "cand",
                     !.queue = IF fetch_ok
                                 THEN GetTraderTrades(fw.allocs[fw.ai].trader_address)
                                 ELSE <<>>]
  /\ UNCHANGED <<feed, seen, rows, positions, orders, copyVars, fund, allocs,
                 investments, resp, hist>>

\* poll_fund_traders, lines 222-255: dedup, age and shape of one trade.
FundCandidate ==
  /\ fw.pc = "cand"
  /\ IF fw.queue = <<>>
       THEN /\ fw' = [fw EXCEPT !.pc = "alloc", !.ai = fw.ai + 1]
            /\ UNCHANGED seen
       ELSE LET u == Head(fw.queue)
                t == UT[u]
            IN IF DedupId(t) \in seen
                 THEN /\ fw' = [fw EXCEPT !.queue = Tail(fw.queue)]
                      /\ UNCHANGED seen
               ELSE IF (t.ts # "" /\ TooOld(age[u])) \/ FundTokenOf(t) = NULL
                       \/ t.side \notin {"BUY", "SELL"}
                 THEN /\ seen' = MarkTradeSeen(seen, DedupId(t))
                      /\ fw' = [fw EXCEPT !.queue = Tail(fw.queue)]
               ELSE /\ Len(rows) < MaxRows
                    /\ Len(orders) < MaxOrders
                    /\ fw' = [fw EXCEPT !.pc = "order", !.cur = u,
                                        !.queue = Tail(fw.queue)]
                    /\ UNCHANGED seen
  /\ UNCHANGED <<feed, rows, positions, orders, copyVars, fund, allocs, investments,
                 resp, hist>>

\* execute_fund_trade, lines 83-112: size the trade and call the gateway.
FundOrder(result) ==
  /\ fw.pc = "order"
  /\ LET t == UT[fw.cur]
         original_usd == IF t.price > 0 THEN t.size * t.price ELSE t.size * 100
         copy_size == CalculateFundCopySize(fw.funds[1], fw.allocs[fw.ai].weight, original_usd)
     IN IF copy_size <= 0
          THEN /\ fw' = [fw EXCEPT !.pc = "mark"]
               /\ UNCHANGED orders
        ELSE IF ~Sends(fw.dry)
          THEN /\ fw' = [fw EXCEPT !.pc = "record", !.amount = copy_size,
                                   !.status = "dry_run"]
               /\ UNCHANGED orders
        ELSE /\ orders' = Append(orders,
                  [engine |-> "fund", id |-> DedupId(t), token |-> FundTokenOf(t),
                   side |-> t.side, amount |-> copy_size, mode |-> "MARKET"])
             /\ fw' = [fw EXCEPT !.pc = "record", !.amount = copy_size,
                                 !.status = FundStatus(result)]
  /\ UNCHANGED <<feed, seen, rows, positions, copyVars, fund, allocs, investments,
                 resp, hist>>

\* execute_fund_trade, lines 114-151: the trade row (no price, no user).
FundRecord ==
  /\ fw.pc = "record"
  /\ LET t == UT[fw.cur] IN
       rows' = Append(rows,
         [strategy |-> "fund", user |-> NULL, token |-> FundTokenOf(t), side |-> t.side,
          amount |-> fw.amount, price |-> 0,
          copied_from |-> fw.allocs[fw.ai].trader_address,
          original_trade_id |-> DedupId(t), status |-> fw.status,
          notes |-> "Fund: 1", today |-> TRUE])
  /\ fw' = [fw EXCEPT !.pc = "mark"]
  /\ UNCHANGED <<feed, seen, positions, orders, copyVars, fund, allocs, investments,
                 resp, hist>>

\* poll_fund_traders, line 260: the id is marked after the execution.
FundMark ==
  /\ fw.pc = "mark"
  /\ seen' = MarkTradeSeen(seen, DedupId(UT[fw.cur]))
  /\ fw' = [fw EXCEPT !.pc = "cand", !.cur = NULL, !.amount = 0, !.status = NULL]
  /\ UNCHANGED <<feed, rows, positions, orders, copyVars, fund, allocs, investments,
                 resp, hist>>

\* FundManager.run, lines 302-314: when iteration % 10 == 0 update the NAV,
\* reload the active funds and expire the ledger.
FundIterEnd(periodic) ==
  /\ fw.pc = "iter_end"
  /\ IF periodic
       THEN /\ fund' = IF fw.funds # <<>> THEN UpdateFundNav(fund) ELSE fund
            /\ fw' = [fw EXCEPT !.pc = "top",
                        !.funds = IF fund.active THEN <<fund'>> ELSE <<>>]
            /\ seen' = CleanupOldSeenTrades(seen, seenOld)
            /\ seenOld' = {}
       ELSE /\ fw' = [fw EXCEPT !.pc = "top"]
            /\ UNCHANGED <<fund, seen, seenOld>>
  /\ UNCHANGED <<feed, age, rows, positions, followed, orders, cw, world, followed_traders, sup, calc, allocs,
                 investments, resp, hist>>

\* The process dies while the fund worker runs.
FundCrash ==
  /\ fw.pc # "dead"
  /\ fw' = IdleFundWorker
  /\ UNCHANGED <<feed, seen, rows, positions, orders, copyVars, fund, allocs,
                 investments, resp, hist>>

\* --------------------------------------------------------------- arbitrage
MinProfitPct == 1
TradeAmount == 1000
MaxPositionSize == 10000

\* BUY prices of the YES and NO token of one market as get_price returns
\* them, in 1/10000 USD; NONE when the price call fails.  The pairs that
\* qualify have whole-cent prices and split the amount between the legs
\* exactly; <<4951, 4950>> costs 0.9901 and stays under the profit threshold.
Quotes ==
  {<<NONE, 5000>>, <<5000, NONE>>, <<0, 0>>, <<5000, 5000>>, <<6000, 5000>>,
   <<4951, 4950>>, <<3000, 5000>>, <<2000, 6000>>, <<2500, 2500>>}

\* Variant of CheckOpportunity without the min_profit_pct test.
CheckOpportunityAnyProfit(yes_price, no_price) ==
  LET combined_cost == yes_price + no_price
      none == [found |-> FALSE, yes_token |-> "tok1", no_token |-> "tok2",
               yes_price |-> 0, no_price |-> 0, combined_cost |-> 0]
  IN IF yes_price = NONE \/ no_price = NONE THEN none
     ELSE IF combined_cost >= PriceOne \/ combined_cost <= 0 THEN none
     ELSE [found |-> TRUE, yes_token |-> "tok1", no_token |-> "tok2",
           yes_price |-> yes_price, no_price |-> no_price,
           combined_cost |-> combined_cost]

\* ArbitrageScanner.check_opportunity on the two prices: the opportunity,
\* found or not.  profit_pct < min_profit_pct is (1 - c) / c * 100 < min,
\* here multiplied out by c > 0.
CheckOpportunity(yes_price, no_price) ==
  LET combined_cost == yes_price + no_price
      none == [found |-> FALSE, yes_token |-> "tok1", no_token |-> "tok2",
               yes_price |-> 0, no_price |-> 0, combined_cost |-> 0]
  IN IF yes_price = NONE \/ no_price = NONE THEN none
     ELSE IF combined_cost >= PriceOne \/ combined_cost <= 0 THEN none
     ELSE IF (PriceOne - combined_cost) * 100 < MinProfitPct * combined_cost THEN none
     ELSE [found |-> TRUE, yes_token |-> "tok1", no_token |-> "tok2",
           yes_price |-> yes_price, no_price |-> no_price,
           combined_cost |-> combined_cost]

\* Variant of LegOk: the truthiness test ("if result"), which takes an error
\* dict for a success.
LegOkTruthy(result) == result # "empty"

\* execute_arbitrage, lines 129-135: _leg_ok
LegOk(result) == result \notin {"empty", "error", "error_blank"}

\* execute_arbitrage, lines 146-151: the reason stored for a failed leg.
LegFailReason(result) ==
  IF result \in {"error", "error_blank"} THEN FailReason(result)
  ELSE "Order execution failed"

ArbRow(token, amount, price, status, notes) ==
  [strategy |-> "arbitrage", user |-> User, token |-> token, side |-> "BUY",
   amount |-> amount, price |-> price, copied_from |-> "", original_trade_id |-> "",
   status |-> status, notes |-> notes, today |-> TRUE]

ArbOrder(token, amount) ==
  [engine |-> "arbitrage", id |-> "", token |-> token, side |-> "BUY",
   amount |-> amount, mode |-> "MARKET"]

\* One market of ArbitrageScanner.run's loop (scan_markets and lines 215-226):
\* the check, and execute_arbitrage when an opportunity is found and the
\* scanner executes.  calc keeps the prices the check read, whether it found
\* an opportunity, the gateway results of the two legs and the value
\* execute_arbitrage returned.  Rows keep prices in cents.
ArbScan(quote, dry_run, auto_execute, yes_result, no_result) ==
  LET opp == CheckOpportunity(quote[1], quote[2])
      executes == opp.found /\ (auto_execute \/ dry_run)
      sent == executes /\ Sends(dry_run)
  IN
  /\ Len(rows) < MaxRows
  /\ IF executes
       THEN LET amount == Min(TradeAmount, MaxPositionSize)
                yes_amount == (amount * opp.yes_price) \div opp.combined_cost
                no_amount == (amount * opp.no_price) \div opp.combined_cost
                yes_cents == opp.yes_price \div 100
                no_cents == opp.no_price \div 100
            IN IF ~Sends(dry_run)
                 THEN /\ rows' = rows \o <<ArbRow(opp.yes_token, yes_amount, yes_cents,
                                                 "dry_run", ""),
                                           ArbRow(opp.no_token, no_amount, no_cents,
                                                 "dry_run", "")>>
                      /\ UNCHANGED orders
                 ELSE /\ orders' = orders \o <<ArbOrder(opp.yes_token, yes_amount),
                                               ArbOrder(opp.no_token, no_amount)>>
                      /\ rows' = rows \o
                           <<ArbRow(opp.yes_token, yes_amount, yes_cents,
                                    IF LegOk(yes_result) THEN "executed" ELSE "failed",
                                    IF LegOk(yes_result) THEN ""
                                    ELSE LegFailReason(yes_result)),
                             ArbRow(opp.no_token, no_amount, no_cents,
                                    IF LegOk(no_result) THEN "executed" ELSE "failed",
                                    IF LegOk(no_result) THEN ""
                                    ELSE LegFailReason(no_result))>>
       ELSE UNCHANGED <<rows, orders>>
  /\ calc' = [fn |-> IF executes THEN "execute_arbitrage" ELSE "check_opportunity",
              yes_price |-> quote[1], no_price |-> quote[2], found |-> opp.found,
              dry_run |-> dry_run,
              yes_result |-> IF sent THEN yes_result ELSE "unsent",
              no_result |-> IF sent THEN no_result ELSE "unsent",
              done |-> TRUE,
              success |-> executes /\ (~sent \/ (LegOk(yes_result) /\ LegOk(no_result)))]
  /\ UNCHANGED <<feed, age, seen, seenOld, positions, followed, cw, world, followed_traders, sup, fundVars>>


Next ==
  \/ CopyStart(FALSE)
  \/ CopyStop
  \/ RunBegin
  \/ \E ok \in BOOLEAN : ScanTrader(ok)
  \/ LoopTop
  \/ \E ok \in BOOLEAN : PollTrader(ok)
  \/ Candidate
  \/ ExecMark
  \/ \E r \in OrderResults : ExecOrder(r)
  \/ ExecRecord
  \/ \E p, ok \in BOOLEAN : IterEnd(p, ok)
  \/ Crash
  \/ \E u \in UIds : Publish(u)
  \/ \E u \in UIds : TradeAges(u)
  \/ DayPasses
  \/ WeekPasses

Spec == Init /\ [][Next]_vars

\* The copy side at rest: nothing published, nobody working.
CopyAtRest ==
  /\ feed = {}
  /\ age = [u \in UIds |-> 0]
  /\ seen = {}
  /\ seenOld = {}
  /\ rows = <<>>
  /\ positions = [k \in PosKeys |-> NoPosition]
  /\ followed = [tr \in TraderSet |->
                   [active |-> TRUE, total_copied |-> 0, total_spent |-> 0,
                    ov |-> NoOverrides]]
  /\ orders = <<>>
  /\ cw = IdleWorker
  /\ world = {"u1", "u3"}
  /\ sup = SupIdle
  /\ followed_traders = FollowIdle

CopyIdle == CopyAtRest /\ calc = NoCalc

\* Investors of fund 1: invest, withdraw, NAV updates.
InitInvest == CopyIdle /\ FundIdle
NextInvest ==
  \/ \E who \in Investors, amount \in Amounts : InvestInFund(who, amount)
  \/ \E id \in 1..MaxInvestments, who \in Investors : WithdrawInvestment(id, who)
  \/ NavUpdate
SpecInvest == InitInvest /\ [][NextInvest]_vars

\* The owner (and others) replacing the allocations of fund 1.
InitAlloc == CopyIdle /\ FundIdle
NextAlloc ==
  \E fund_id \in FundIds, req \in AllocRequests, who \in Investors :
     SetAllocations(fund_id, req, who)
SpecAlloc == InitAlloc /\ [][NextAlloc]_vars

\* The copy worker started over a feed that already holds the run's trades,
\* all of them recent; nothing is published afterwards.
InitBoot ==
  /\ InitStore
  /\ feed = world
NextBoot ==
  \/ CopyStart(FALSE)
  \/ CopyStop
  \/ RunBegin
  \/ \E ok \in BOOLEAN : ScanTrader(ok)
  \/ LoopTop
  \/ \E ok \in BOOLEAN : PollTrader(ok)
  \/ Candidate
  \/ ExecMark
  \/ \E r \in OrderResults : ExecOrder(r)
  \/ ExecRecord
  \/ \E p, ok \in BOOLEAN : IterEnd(p, ok)
  \/ Crash
  \/ \E u \in UIds : TradeAges(u)
  \/ DayPasses
SpecBoot == InitBoot /\ [][NextBoot]_vars

\* The fund worker over a funded fund with two allocations.
FundedFund ==
  [InitialFund EXCEPT !.total_aum = Pow2(11), !.total_shares = Pow2(11)]

InitFund ==
  /\ CopyIdle
  /\ fund = FundedFund
  /\ allocs = [a \in {"0xaa", "0xbb", "0xcc"} |->
                 IF a = "0xcc" THEN NoAlloc ELSE [weight |-> 500, active |-> TRUE]]
  /\ investments = <<>>
  /\ resp = NoResp
  /\ hist = NoHist
  /\ fw = IdleFundWorker
NextFund ==
  \/ FundEngineStart(FALSE)
  \/ FundEngineStop
  \/ FundRunBegin
  \/ FundLoopTop
  \/ \E ok \in BOOLEAN : FundFetch(ok)
  \/ FundCandidate
  \/ \E r \in OrderResults : FundOrder(r)
  \/ FundRecord
  \/ FundMark
  \/ \E p \in BOOLEAN : FundIterEnd(p)
  \/ FundCrash
  \/ \E u \in UIds : Publish(u)
  \/ \E u \in UIds : TradeAges(u)
  \/ DayPasses
  \/ WeekPasses
SpecFund == InitFund /\ [][NextFund]_vars

\* The arbitrage scanner over one market.
InitArb == CopyIdle /\ FundIdle
NextArb ==
  \E q \in Quotes, dry_run, auto \in BOOLEAN, yr, nr \in OrderResults :
     ArbScan(q, dry_run, auto, yr, nr)
SpecArb == InitArb /\ [][NextArb]_vars

\* The user's copy worker and the fund worker, both live and never stopped,
\* over the same store and the same feed.
InitBoth == InitFund
NextBoth ==
  \/ CopyStart(FALSE)
  \/ RunBegin
  \/ ScanTrader(TRUE)
  \/ LoopTop
  \/ PollTrader(TRUE)
  \/ Candidate
  \/ ExecMark
  \/ ExecOrder("ok")
  \/ ExecRecord
  \/ IterEnd(FALSE, TRUE)
  \/ FundEngineStart(FALSE)
  \/ FundRunBegin
  \/ FundLoopTop
  \/ FundFetch(TRUE)
  \/ FundCandidate
  \/ FundOrder("ok")
  \/ FundRecord
  \/ FundMark
  \/ FundIterEnd(FALSE)
  \/ \E u \in UIds : Publish(u)
  \/ \E u \in UIds : TradeAges(u)
SpecBoth == InitBoth /\ [][NextBoth]_vars

\* The three engines in dry-run mode over the same store: the copy worker
\* and the fund worker started with dry_run, the scanner constructed with it.
DryQuotes == {<<3000, 5000>>, <<5000, 5000>>}
InitDry == InitFund
NextDry ==
  \/ CopyStart(TRUE)
  \/ RunBegin
  \/ ScanTrader(TRUE)
  \/ LoopTop
  \/ PollTrader(TRUE)
  \/ Candidate
  \/ ExecMark
  \/ \E r \in {"ok", "error"} : ExecOrder(r)
  \/ ExecRecord
  \/ IterEnd(FALSE, TRUE)
  \/ FundEngineStart(TRUE)
  \/ FundRunBegin
  \/ FundLoopTop
  \/ FundFetch(TRUE)
  \/ FundCandidate
  \/ \E r \in {"ok", "error"} : FundOrder(r)
  \/ FundRecord
  \/ FundMark
  \/ FundIterEnd(FALSE)
  \/ \E q \in DryQuotes, yr \in {"ok", "error"} : ArbScan(q, TRUE, FALSE, yr, "ok")
  \/ \E u \in UIds : Publish(u)
SpecDry == InitDry /\ [][NextDry]_vars

\* Adds and removes on the follow list, by the users (server) and without a
\* user (cli), and the worker's counter updates.
InitFollow == CopyIdle /\ FundIdle
NextFollow ==
  \/ \E r \in 1..MaxRequests, a \in TraderSet, who \in Callers : AddTraderSelect(r, a, who)
  \/ \E r \in 1..MaxRequests : AddTraderWrite(r)
  \/ \E a \in TraderSet, who \in Callers : RemoveTrader(a, who)
  \/ \E a \in TraderSet, who \in Callers : UpdateTraderStatsRows(a, who)
SpecFollow == InitFollow /\ [][NextFollow]_vars

\* The live copy worker over a feed with one trade that can go stale (u1),
\* one without a token (u4) and one without a side (u5), across ledger
\* expiries.
InitReject ==
  /\ feed = {}
  /\ age = [u \in UIds |-> 0]
  /\ seen = {}
  /\ seenOld = {}
  /\ rows = <<>>
  /\ positions = [k \in PosKeys |-> NoPosition]
  /\ followed = [tr \in TraderSet |->
                   [active |-> TRUE, total_copied |-> 0, total_spent |-> 0,
                    ov |-> NoOverrides]]
  /\ orders = <<>>
  /\ cw = IdleWorker
  /\ world = {"u1", "u4", "u5"}
  /\ sup = SupIdle
  /\ followed_traders = FollowIdle
  /\ calc = NoCalc
  /\ FundIdle
NextReject ==
  \/ CopyStart(FALSE)
  \/ RunBegin
  \/ \E ok \in BOOLEAN : ScanTrader(ok)
  \/ LoopTop
  \/ PollTrader(TRUE)
  \/ Candidate
  \/ ExecMark
  \/ ExecOrder("ok")
  \/ ExecRecord
  \/ \E p \in BOOLEAN : IterEnd(p, TRUE)
  \/ \E u \in UIds : Publish(u)
  \/ \E u \in UIds : TradeAges(u)
  \/ WeekPasses
SpecReject == InitReject /\ [][NextReject]_vars

\* The live copy worker close to its daily caps.  The override row of 0xaa
\* either makes one copy of u1 as large as the user's whole daily budget, or
\* caps the trader's own day at the size of one copy.
BudgetOverrides ==
  { [min_copy_size |-> MaxDailySpend, max_copy_size |-> MaxDailySpend, max_daily_spend |-> NONE],
    [min_copy_size |-> 20000, max_copy_size |-> 20000, max_daily_spend |-> 20000] }

\* The candidates should_copy has turned down for a daily cap so far.
NoneTurnedDown == [fn |-> "should_copy", done |-> FALSE, out |-> NONE, turned_down |-> {}]

BudgetReasons == {"global_daily_limit_reached", "trader_daily_limit_reached"}

\* poll_trader's evaluation of a candidate, with the budget rejections noted.
CandidateWatched ==
  /\ CandidateEval
  /\ calc' = IF cw.queue # <<>> /\ ShouldCopyReason(Head(cw.queue)) \in BudgetReasons
               THEN [calc EXCEPT !.done = TRUE, !.turned_down = @ \cup {Head(cw.queue)}]
               ELSE calc

\* Midnight shortly after the trades were made: date.today() changes while
\* the trades of the feed are still younger than max_trade_age.
Midnight ==
  /\ rows' = NotToday(rows)
  /\ rows' # rows
  /\ UNCHANGED <<feed, age, seen, seenOld, positions, followed, orders, cw, world, followed_traders, sup, calc, fundVars>>

InitBudget ==
  /\ feed = {}
  /\ age = [u \in UIds |-> 0]
  /\ seen = {}
  /\ seenOld = {}
  /\ rows = <<>>
  /\ positions = [k \in PosKeys |-> NoPosition]
  /\ \E ov \in BudgetOverrides :
       followed = [tr \in TraderSet |->
                     [active |-> TRUE, total_copied |-> 0, total_spent |-> 0,
                      ov |-> IF tr = "0xaa" THEN ov ELSE NoOverrides]]
  /\ orders = <<>>
  /\ cw = IdleWorker
  /\ world = {"u1", "u2", "u3"}
  /\ sup = SupIdle
  /\ followed_traders = FollowIdle
  /\ calc = NoneTurnedDown
  /\ FundIdle
NextBudget ==
  \/ CopyStart(FALSE)
  \/ RunBegin
  \/ ScanTrader(TRUE)
  \/ LoopTop
  \/ PollTrader(TRUE)
  \/ CandidateWatched
  \/ ExecMark
  \/ \E r \in {"ok", "error"} : ExecOrder(r)
  \/ ExecRecord
  \/ IterEnd(FALSE, TRUE)
  \/ \E u \in UIds : Publish(u)
  \/ \E u \in UIds : TradeAges(u)
  \/ Midnight
SpecBudget == InitBudget /\ [][NextBudget]_vars

\* server.copy_remove_trader -> db.remove_trader: the row is deactivated.
CopyRemoveTrader(address) ==
  /\ followed[address].active
  /\ followed' = [followed EXCEPT ![address].active = FALSE]
  /\ UNCHANGED <<feed, age, seen, seenOld, rows, positions, orders, cw, world, followed_traders, sup, calc, fundVars>>

\* server.copy_update_trader -> db.update_trader_settings: the override
\* columns of the row are rewritten.
CopyUpdateTrader(address, ov) ==
  /\ followed[address].ov # ov
  /\ followed' = [followed EXCEPT ![address].ov = ov]
  /\ UNCHANGED <<feed, age, seen, seenOld, rows, positions, orders, cw, world, followed_traders, sup, calc, fundVars>>

\* The live copy worker while the user edits the follow list.
InitEdit == CopyIdle /\ FundIdle
NextEdit ==
  \/ CopyStart(FALSE)
  \/ RunBegin
  \/ ScanTrader(TRUE)
  \/ LoopTop
  \/ PollTrader(TRUE)
  \/ Candidate
  \/ ExecMark
  \/ ExecOrder("ok")
  \/ ExecRecord
  \/ \E p \in BOOLEAN : IterEnd(p, TRUE)
  \/ \E u \in UIds : Publish(u)
  \/ \E tr \in TraderSet : CopyRemoveTrader(tr)
  \/ \E tr \in TraderSet, ov \in OverrideChoices : CopyUpdateTrader(tr, ov)
SpecEdit == InitEdit /\ [][NextEdit]_vars

\* db.close_position (server close_all_positions, redeem_all_positions): the
\* row stays in the table, closed and with size 0.
ClosePositionRow(k) ==
  /\ positions[k].status = "open"
  /\ positions' = [positions EXCEPT ![k] = [@ EXCEPT !.status = "closed", !.size = 0]]

ClosePosition(k) ==
  /\ ClosePositionRow(k)
  /\ calc' = [fn |-> "close_position", token |-> k[1], pos_side |-> k[2], done |-> TRUE]
  /\ UNCHANGED <<feed, age, seen, seenOld, rows, followed, orders, cw, world, followed_traders, sup, fundVars>>

\* The largest cost basis a position is followed up to.
MaxPositionCost == 2000
TradeAmounts == {500, 1000}
TradePrices == {0, 40, 50}

\* db.upsert_position called for a trade of the user on tok1.
CallUpsertPosition(side, trade_amount, trade_price) ==
  LET k == <<"tok1", IF side = "BUY" THEN "LONG" ELSE "SHORT">>
  IN /\ positions[k].cost + trade_amount <= MaxPositionCost
     /\ positions' = UpsertPosition(positions, "tok1", side, trade_amount, trade_price)
     /\ calc' = [fn |-> "upsert_position", token |-> "tok1", pos_side |-> k[2],
                 trade_amount |-> trade_amount, trade_price |-> trade_price, done |-> TRUE]
     /\ UNCHANGED <<feed, age, seen, seenOld, rows, followed, orders, cw, world, followed_traders, sup, fundVars>>

\* The positions table under trades, close-all and redeem.
InitPos == CopyIdle /\ FundIdle
NextPos ==
  \/ \E side \in {"BUY", "SELL"}, a \in TradeAmounts, p \in TradePrices :
        CallUpsertPosition(side, a, p)
  \/ \E k \in PosKeys : ClosePosition(k)
SpecPos == InitPos /\ [][NextPos]_vars

\* Withdraw requests served by concurrent request threads.  Each call of
\* db.withdraw_from_fund reads the investment and the fund (the SELECTs run
\* outside any transaction: sqlite3 opens one only at the first UPDATE) and
\* then writes both rows in one transaction.
NoWithdraw == [pc |-> "idle", id |-> 0, caller |-> NULL, shares |-> 0, nav |-> 0, code |-> 0]

\* withdraw_from_fund, lines 819-826: the two SELECTs; ValueError (400) when
\* no active investment of the caller has the id.  A request thread that has
\* answered takes the next request.
WithdrawSelect(r, id, caller) ==
  /\ calc.req[r].pc \in {"idle", "done"}
  /\ IF id > Len(investments) \/ investments[id].investor # caller
        \/ investments[id].status # "active"
       THEN calc' = [calc EXCEPT !.req[r] =
                       [NoWithdraw EXCEPT !.pc = "done", !.id = id, !.caller = caller,
                                          !.code = 400]]
       ELSE calc' = [calc EXCEPT !.req[r] =
                       [pc |-> "selected", id |-> id, caller |-> caller,
                        shares |-> investments[id].shares, nav |-> fund.nav_per_share,
                        code |-> 0]]
  /\ UNCHANGED <<feed, age, seen, seenOld, rows, positions, followed, orders, cw, world, followed_traders, sup, fundVars>>

\* withdraw_from_fund, lines 827-833: the two UPDATEs and the commit.
WithdrawWrite(r) ==
  /\ calc.req[r].pc = "selected"
  /\ LET q == calc.req[r]
         withdrawal_amount == WithdrawalAmount(q.shares, q.nav)
     IN /\ investments' = [investments EXCEPT ![q.id].status = "withdrawn"]
        /\ fund' = [fund EXCEPT !.total_aum = FlSub(@, withdrawal_amount),
                                !.total_shares = FlSub(@, q.shares)]
        /\ resp' = [op |-> "withdraw", code |-> 200, value |-> withdrawal_amount]
        /\ calc' = [calc EXCEPT !.req[r].pc = "done", !.req[r].code = 200]
  /\ UNCHANGED <<feed, age, seen, seenOld, rows, positions, followed, orders, cw, world, followed_traders, sup, allocs, hist, fw>>

\* A fund holding bob's 0.08 and alice's 0.03, and no request in flight.
TwoInvestments ==
  << [investor |-> "bob", amount_invested |-> 8, shares |-> 8, status |-> "active"],
     [investor |-> User, amount_invested |-> 3, shares |-> 3, status |-> "active"] >>

InitWithdraw ==
  /\ CopyAtRest
  /\ calc = [fn |-> "withdraw_from_fund", done |-> FALSE,
             req |-> [r \in 1..MaxRequests |-> NoWithdraw]]
  /\ fund = [InitialFund EXCEPT !.total_aum = 11, !.total_shares = 11]
  /\ allocs = [a \in {"0xaa", "0xbb", "0xcc"} |-> NoAlloc]
  /\ investments = TwoInvestments
  /\ resp = NoResp
  /\ hist = NoHist
  /\ fw = IdleFundWorker
NextWithdraw ==
  \/ \E r \in 1..MaxRequests, id \in 1..MaxInvestments, who \in Investors :
        WithdrawSelect(r, id, who)
  \/ \E r \in 1..MaxRequests : WithdrawWrite(r)
SpecWithdraw == InitWithdraw /\ [][NextWithdraw]_vars

\* ------------------------------------------------------ position tracker
\* Midpoint prices the gateway can report, in cents per share; NONE when no
\* price is available.
MidPrices == {NONE, 40, 80}
TrackedKeys == {<<"tok1", "LONG">>, <<"tok2", "SHORT">>}

\* db.update_position_prices, lines 714-717: the P&L of a row at a price.
UnrealizedPnl(pos, pos_side, current_price) ==
  IF pos_side = "LONG" THEN RoundDiv((current_price - pos.avg) * pos.size, 100)
  ELSE 0 - RoundDiv((current_price - pos.avg) * pos.size, 100)

\* The tracker between two batches.  tx: the connection of the batch holds
\* the write transaction (from its first UPDATE to the commit).
TrackerIdle ==
  [fn |-> "update_prices", done |-> FALSE, pc |-> "idle", updates |-> <<>>,
   read |-> NoPosition, tx |-> FALSE]

\* PositionTracker.update_prices, lines 84-104: the snapshot of the open
\* positions and one price per position; positions without a price are left
\* out of the batch.
TrackSnapshot(order, price) ==
  /\ calc.pc = "idle"
  /\ LET open == {k \in PosKeys : positions[k].status = "open"}
         batch == [i \in 1..Len(order) |-> [id |-> order[i], current_price |-> price[order[i]]]]
         HasPrice(u) == u.current_price > 0
     IN /\ Len(order) = Cardinality(open)
        /\ {order[i] : i \in 1..Len(order)} = open
        /\ \A k \in PosKeys \ open : price[k] = NONE
        /\ SelectSeq(batch, HasPrice) # <<>>
        /\ calc' = [calc EXCEPT !.pc = "select", !.updates = SelectSeq(batch, HasPrice)]
  /\ UNCHANGED <<feed, age, seen, seenOld, rows, positions, followed, orders, cw, world, followed_traders, sup, fundVars>>

\* db.update_position_prices, lines 708-712, for the first row that is still
\* open: the SELECT runs before the connection has opened its transaction.
BatchSelect ==
  /\ calc.pc = "select"
  /\ IF calc.updates = <<>>
       THEN calc' = TrackerIdle
       ELSE LET pos == positions[Head(calc.updates).id]
            IN IF pos.status # "open"
                 THEN calc' = [calc EXCEPT !.updates = Tail(@)]
                 ELSE calc' = [calc EXCEPT !.pc = "write", !.read = pos]
  /\ UNCHANGED <<feed, age, seen, seenOld, rows, positions, followed, orders, cw, world, followed_traders, sup, fundVars>>

\* db.update_position_prices, lines 713-721: the first UPDATE, by id alone,
\* with the P&L of the row as it was read; it opens the write transaction.
BatchWrite ==
  /\ calc.pc = "write"
  /\ LET u == Head(calc.updates)
     IN positions' = [positions EXCEPT ![u.id] =
                        [@ EXCEPT !.cur = u.current_price,
                                  !.pnl = UnrealizedPnl(calc.read, u.id[2], u.current_price)]]
  /\ calc' = [calc EXCEPT !.pc = "rest", !.updates = Tail(@), !.read = NoPosition,
                          !.tx = TRUE]
  /\ UNCHANGED <<feed, age, seen, seenOld, rows, followed, orders, cw, world, followed_traders, sup, fundVars>>

\* db.update_position_prices for a later row, inside the transaction: SELECT
\* and UPDATE see the same table; after the last row the commit.
BatchRest ==
  /\ calc.pc = "rest"
  /\ IF calc.updates = <<>>
       THEN /\ calc' = TrackerIdle
            /\ UNCHANGED positions
       ELSE LET u == Head(calc.updates)
                pos == positions[u.id]
            IN /\ positions' = IF pos.status # "open" THEN positions
                               ELSE [positions EXCEPT ![u.id] =
                                       [@ EXCEPT !.cur = u.current_price,
                                                 !.pnl = UnrealizedPnl(pos, u.id[2],
                                                                       u.current_price)]]
               /\ calc' = [calc EXCEPT !.updates = Tail(@)]
  /\ UNCHANGED <<feed, age, seen, seenOld, rows, followed, orders, cw, world, followed_traders, sup, fundVars>>

\* Another connection closes a position (close-all, redeem); it cannot write
\* while the batch holds the write transaction.
TrackedClose(k) ==
  /\ ~calc.tx
  /\ ClosePositionRow(k)
  /\ UNCHANGED <<feed, age, seen, seenOld, rows, followed, orders, cw, world, followed_traders, sup, calc, fundVars>>

\* An engine records a trade of 10.00 on one of the tracked positions.
TrackedTrade(k, trade_price) ==
  /\ ~calc.tx
  /\ positions[k].cost + 1000 <= MaxPositionCost
  /\ positions' = UpsertPosition(positions, k[1], IF k[2] = "LONG" THEN "BUY" ELSE "SELL",
                                 1000, trade_price)
  /\ UNCHANGED <<feed, age, seen, seenOld, rows, followed, orders, cw, world, followed_traders, sup, calc, fundVars>>

InitTrack ==
  /\ feed = {}
  /\ age = [u \in UIds |-> 0]
  /\ seen = {}
  /\ seenOld = {}
  /\ rows = <<>>
  /\ positions = [k \in PosKeys |-> NoPosition]
  /\ followed = [tr \in TraderSet |->
                   [active |-> TRUE, total_copied |-> 0, total_spent |-> 0,
                    ov |-> NoOverrides]]
  /\ orders = <<>>
  /\ cw = IdleWorker
  /\ world = {"u1", "u3"}
  /\ sup = SupIdle
  /\ followed_traders = FollowIdle
  /\ calc = TrackerIdle
  /\ FundIdle
NextTrack ==
  \/ \E order \in UNION {[1..n -> PosKeys] : n \in 0..2}, price \in [PosKeys -> MidPrices] :
        TrackSnapshot(order, price)
  \/ BatchSelect
  \/ BatchWrite
  \/ BatchRest
  \/ \E k \in TrackedKeys : TrackedClose(k)
  \/ \E k \in TrackedKeys, p \in {40, 50} : TrackedTrade(k, p)
SpecTrack == InitTrack /\ [][NextTrack]_vars

\* ------------------------------------------------------------ test trade
\* server.copy_test_trade: the latest trade of a followed trader is sized
\* with a temporary CopyTrader and, when live, handed to its execute_copy
\* (mark seen, order, row, counters, position); should_copy is not called.
\* A dry test changes nothing in the store.
CopyTestTrade(trader_address, live, result) ==
  LET recent_trades == GetTraderTrades(trader_address)
      u == Head(recent_trades)
      t == UT[u]
      resolved == ResolveOverrides(followed[trader_address].ov)
      copy_size == CopySize(t.size, t.price, resolved,
                            MaxDailySpend - GetDailySpend,
                            resolved.max_daily_spend - GetTraderDailySpend(trader_address))
      limit_price == CalculateLimitPrice(t, t.side, resolved.limit_order_pct)
      use_limit == resolved.order_mode = "limit" /\ limit_price # NONE /\ limit_price > 0
      status == CopyStatus(result)
      runs == /\ followed[trader_address].active
              /\ recent_trades # <<>>
              /\ TokenOf(UT[Head(recent_trades)]) # NULL
              /\ live
  IN /\ Len(rows) < MaxRows
     /\ Len(orders) < MaxOrders
     /\ IF ~runs
          THEN UNCHANGED <<seen, orders, rows, followed, positions, calc>>
        ELSE IF copy_size <= 0
          THEN /\ calc' = [fn |-> "copy_test_trade", done |-> TRUE, id |-> GetTradeId(t),
                           status |-> "skipped", row |-> 0]
               /\ UNCHANGED <<seen, orders, rows, followed, positions>>
        ELSE /\ seen' = MarkTradeSeen(seen, GetTradeId(t))
             /\ orders' = Append(orders,
                   [engine |-> "copy", id |-> GetTradeId(t), token |-> TokenOf(t),
                    side |-> t.side, amount |-> copy_size,
                    mode |-> IF use_limit THEN "LIMIT" ELSE "MARKET"])
             /\ rows' = Append(rows,
                   [strategy |-> "copy", user |-> User, token |-> TokenOf(t), side |-> t.side,
                    amount |-> copy_size, price |-> t.price, copied_from |-> t.trader,
                    original_trade_id |-> GetTradeId(t), status |-> status,
                    notes |-> IF FailReason(result) # "" THEN FailReason(result) ELSE NULL,
                    today |-> TRUE])
             /\ followed' = IF status = "executed"
                              THEN UpdateTraderStats(followed, t.trader, copy_size)
                              ELSE followed
             /\ positions' = IF status = "executed" /\ t.price > 0
                               THEN UpsertPosition(positions, TokenOf(t), t.side, copy_size,
                                                   t.price)
                               ELSE positions
             /\ calc' = [fn |-> "copy_test_trade", done |-> TRUE, id |-> GetTradeId(t),
                         status |-> status, row |-> Len(rows) + 1]
     /\ UNCHANGED <<feed, age, seenOld, cw, world, followed_traders, sup, fundVars>>

\* The user's copy worker and the user's test-trade requests.
InitTest == CopyIdle /\ FundIdle
NextTest ==
  \/ CopyStart(FALSE)
  \/ RunBegin
  \/ ScanTrader(TRUE)
  \/ LoopTop
  \/ PollTrader(TRUE)
  \/ Candidate
  \/ ExecMark
  \/ ExecOrder("ok")
  \/ ExecRecord
  \/ IterEnd(FALSE, TRUE)
  \/ \E u \in UIds : Publish(u)
  \/ \E tr \in TraderSet, live \in BOOLEAN, r \in {"ok", "error"} : CopyTestTrade(tr, live, r)
SpecTest == InitTest /\ [][NextTest]_vars

\* ------------------------------------------------------------ second user
\* db.get_daily_spend("copy", user) for any user.
RECURSIVE UserDailySpend(_, _)
UserDailySpend(rs, user) ==
  IF rs = <<>> THEN 0
  ELSE (IF Head(rs).strategy = "copy" /\ Head(rs).status = "executed"
           /\ Head(rs).today /\ Head(rs).user = user
        THEN Head(rs).amount ELSE 0) + UserDailySpend(Tail(rs), user)

\* What bob's worker has answered last, and the ids it has marked itself.
BobIdle ==
  [fn |-> "should_copy", done |-> FALSE, user |-> "bob", id |-> NULL, reason |-> NULL,
   marked |-> {}]

\* The copy worker of bob, who follows the same traders with the default
\* settings, takes one candidate of a poll through should_copy and
\* execute_copy over the same store: the ledger is read and written by trade
\* id alone (db.is_trade_seen, db.mark_trade_seen); the row carries bob's
\* address.  Bob's per-trader spend is not kept apart from his daily spend:
\* with MaxRows rows neither cap can be reached.
OtherUserPolls(u, result) ==
  LET t == UT[u]
      id == GetTradeId(t)
      spent == UserDailySpend(rows, "bob")
      reason == IF id \in seen THEN "already_seen"
                ELSE IF ParseTradeTime(t) # NULL /\ TooOld(age[u]) THEN "too_old"
                ELSE IF TokenOf(t) = NULL THEN "no_token_id"
                ELSE IF ~ValidSide(t.side) THEN "invalid_side"
                ELSE IF spent >= MaxDailySpend THEN "global_daily_limit_reached"
                ELSE "ok"
      resolved == ResolveOverrides(NoOverrides)
      copy_size == CopySize(t.size, t.price, resolved, MaxDailySpend - spent,
                            MaxDailySpend - spent)
      limit_price == CalculateLimitPrice(t, t.side, resolved.limit_order_pct)
      use_limit == resolved.order_mode = "limit" /\ limit_price # NONE /\ limit_price > 0
      marks == MarksSeen(reason) \/ reason = "ok"
  IN /\ u \in feed
     /\ reason = "ok" => (Len(rows) < MaxRows /\ Len(orders) < MaxOrders)
     /\ seen' = IF marks THEN MarkTradeSeen(seen, id) ELSE seen
     /\ calc' = [calc EXCEPT !.done = TRUE, !.id = id, !.reason = reason,
                             !.marked = IF marks THEN @ \cup {id} ELSE @]
     /\ IF reason = "ok" /\ copy_size > 0
          THEN /\ orders' = Append(orders,
                     [engine |-> "copy", id |-> id, token |-> TokenOf(t), side |-> t.side,
                      amount |-> copy_size,
                      mode |-> IF use_limit THEN "LIMIT" ELSE "MARKET"])
               /\ rows' = Append(rows,
                     [strategy |-> "copy", user |-> "bob", token |-> TokenOf(t),
                      side |-> t.side, amount |-> copy_size, price |-> t.price,
                      copied_from |-> t.trader, original_trade_id |-> id,
                      status |-> CopyStatus(result),
                      notes |-> IF FailReason(result) # "" THEN FailReason(result) ELSE NULL,
                      today |-> TRUE])
          ELSE UNCHANGED <<orders, rows>>
     /\ UNCHANGED <<feed, age, seenOld, positions, followed, cw, world, followed_traders, sup, fundVars>>

\* The copy workers of alice and of bob over one store and one feed.
InitUsers == CopyAtRest /\ FundIdle /\ calc = BobIdle
NextUsers ==
  \/ CopyStart(FALSE)
  \/ RunBegin
  \/ ScanTrader(TRUE)
  \/ LoopTop
  \/ PollTrader(TRUE)
  \/ Candidate
  \/ ExecMark
  \/ ExecOrder("ok")
  \/ ExecRecord
  \/ IterEnd(FALSE, TRUE)
  \/ \E u \in UIds : Publish(u)
  \/ \E u \in UIds : TradeAges(u)
  \/ \E u \in UIds, r \in {"ok", "error"} : OtherUserPolls(u, r)
SpecUsers == InitUsers /\ [][NextUsers]_vars

\* The server's copy-engine endpoints and the worker threads they start,
\* over an empty feed.  The follow list of User is any subset of the traders.
InitSup ==
  /\ feed = {}
  /\ age = [u \in UIds |-> 0]
  /\ seen = {}
  /\ seenOld = {}
  /\ rows = <<>>
  /\ positions = [k \in PosKeys |-> NoPosition]
  /\ \E act \in SUBSET TraderSet :
       followed = [tr \in TraderSet |->
                     [active |-> tr \in act, total_copied |-> 0, total_spent |-> 0,
                      ov |-> NoOverrides]]
  /\ orders = <<>>
  /\ cw = IdleWorker
  /\ world = {"u1", "u3"}
  /\ sup = SupIdle
  /\ followed_traders = FollowIdle
  /\ calc = NoCalc
  /\ FundIdle
WorkerStep == \E t \in 1..MaxThreads : ThreadRunBegin(t) \/ ThreadLoop(t)
RequestStep == \E r \in 1..MaxRequests : CopyStartSpawn(r)
NextSup ==
  \/ \E r \in 1..MaxRequests, who \in Users : CopyStartCheck(r, who)
  \/ RequestStep
  \/ \E who \in Users : CopyStopRequest(who)
  \/ WorkerStep
SpecSup == InitSup /\ [][NextSup]_vars

\* The same, with the scheduler running every thread that can take a step
\* and every request that was accepted being served to its end.
SpecSupLive == SpecSup /\ WF_vars(WorkerStep) /\ WF_vars(RequestStep)

\* The live copy worker over a feed whose trades age second by second around
\* max_trade_age.
InitAge == CopyIdle /\ FundIdle
NextAge ==
  \/ CopyStart(FALSE)
  \/ RunBegin
  \/ ScanTrader(TRUE)
  \/ LoopTop
  \/ PollTrader(TRUE)
  \/ Candidate
  \/ ExecMark
  \/ ExecOrder("ok")
  \/ ExecRecord
  \/ IterEnd(FALSE, TRUE)
  \/ \E u \in UIds : Publish(u)
  \/ \E u \in UIds, a \in AgeSteps : Elapse(u, a)
SpecAge == InitAge /\ [][NextAge]_vars

\* _calculate_limit_price as a function of its arguments.  Trader prices are
\* market prices, strictly between 0 and 1 (ticks of 0.01, 0.001 and 0.0001);
\* the slippage is limit_order_pct, from 0 to 100 percent.
LimitPrices == {1, 50, 98, 100, 150, 4000, 9700, 9900, 9950, 9990}
Slippages == {0, 50, 200, 1000, 5000, 10000}
LimitCalls ==
  [fn : {"limit_price"}, trader_price : LimitPrices, side : {"BUY", "SELL"},
   slippage_bp : Slippages, done : {FALSE}, out : {NONE}]

CallLimitPrice ==
  /\ calc.fn = "limit_price"
  /\ ~calc.done
  /\ calc' = [calc EXCEPT !.done = TRUE,
                          !.out = LimitPrice(calc.trader_price, calc.side, calc.slippage_bp)]
  /\ UNCHANGED <<feed, age, seen, seenOld, rows, positions, followed, orders, cw,
                 world, followed_traders, sup, fundVars>>

InitPrice == CopyAtRest /\ FundIdle /\ calc \in LimitCalls
NextPrice == CallLimitPrice
SpecPrice == InitPrice /\ [][NextPrice]_vars

\* calculate_copy_size as a function of the upstream size and price (shares,
\* cents), the resolved copy_percentage (percent) and the global budget left
\* today (cents); the bounds and the per-trader budget are the defaults.
CopySizes == {0, 1, 5, 40, 2000}
CopyPrices == {0, 1, 50, 99}
CopyPercentages == {1, CopyPercentage, 50, 100}
GlobalRemainings == {300, MaxDailySpend}
SizeCalls ==
  [fn : {"copy_size"}, size : CopySizes, price : CopyPrices,
   copy_percentage : CopyPercentages, min_copy_size : {MinCopySize},
   max_copy_size : {MaxCopySize}, global_remaining : GlobalRemainings,
   trader_remaining : {MaxDailySpend}, done : {FALSE}, out : {NONE}]

\* What calculate_copy_size returns for the arguments of c.
CopySizeOf(c) ==
  CopySize(c.size, c.price,
           [copy_percentage |-> c.copy_percentage, min_copy_size |-> c.min_copy_size,
            max_copy_size |-> c.max_copy_size],
           c.global_remaining, c.trader_remaining)

CallCopySize ==
  /\ calc.fn = "copy_size"
  /\ ~calc.done
  /\ calc' = [calc EXCEPT !.done = TRUE, !.out = CopySizeOf(calc)]
  /\ UNCHANGED <<feed, age, seen, seenOld, rows, positions, followed, orders, cw,
                 world, followed_traders, sup, fundVars>>

InitSize == CopyAtRest /\ FundIdle /\ calc \in SizeCalls
NextSize == CallCopySize
SpecSize == InitSize /\ [][NextSize]_vars

\* ===================================================================== claims
\* The id of the upstream trade the copy worker is executing.
CurId == GetTradeId(UT[cw.cur])

\* C1: the trades table holds at most one copy-strategy row per (user,
\* original_trade_id), whatever the polls, restarts and repeated feeds.
C1_AtMostOneCopyRow ==
  \A i, j \in 1..Len(rows) :
     (rows[i].strategy = "copy" /\ rows[j].strategy = "copy"
        /\ rows[i].user = rows[j].user
        /\ rows[i].original_trade_id = rows[j].original_trade_id) => i = j

\* C2: the copy worker inserts the id into the dedup ledger before it makes
\* the gateway call: every step that submits a copy order starts, and ends,
\* with the order's id in seen_trade_ids, and a worker that dies after the
\* submission leaves the id in the ledger.
C2_MarkBeforeOrder ==
  [][ /\ (orders' # orders =>
            /\ orders' = Append(orders, orders'[Len(orders')])
            /\ orders'[Len(orders')].id = CurId
            /\ CurId \in seen
            /\ CurId \in seen')
      /\ (cw.pc = "record" /\ ~cw.dry /\ cw'.pc = "dead" => CurId \in seen') ]_vars

C2_Witness ==
  /\ cw.pc = "record"
  /\ Len(orders) > 0
  /\ orders[Len(orders)].id = CurId
  /\ CurId \in seen

\* The largest single order the settings in force allow.
MaxSingleOrder ==
  Max(ResolveOverrides(followed["0xaa"].ov).max_copy_size,
      ResolveOverrides(followed["0xbb"].ov).max_copy_size)

\* C4: within one day the user's executed copy amounts never sum to more than
\* max_daily_spend plus one maximal single order, for every trade shape.
C4_DailySpendBound == GetDailySpend <= MaxDailySpend + MaxSingleOrder

\* The step of execute_copy that records a copy whose gateway call failed.
FailedRecordStep ==
  /\ cw.pc = "record"
  /\ cw'.pc = "cand"
  /\ ~cw.dry
  /\ cw.result \in {"error", "error_blank", "empty"}

\* What a failed copy leaves alone, and the row it adds.
FailedRecordFrame ==
  /\ Len(rows') = Len(rows) + 1
  /\ SubSeq(rows', 1, Len(rows)) = rows
  /\ rows'[Len(rows')].status = "failed"
  /\ rows'[Len(rows')].strategy = "copy"
  /\ rows'[Len(rows')].original_trade_id = CurId
  /\ positions' = positions
  /\ followed' = followed
  /\ orders' = orders
  /\ DailySpendIn(rows', "copy") = DailySpendIn(rows, "copy")
  /\ CurId \in seen'

RECURSIVE SharesIn(_, _, _)
SharesIn(rs, tok, side) ==
  IF rs = <<>> THEN 0
  ELSE (IF Head(rs).status = "executed" /\ Head(rs).price > 0 /\ Head(rs).token = tok
           /\ Head(rs).side = side
        THEN (Head(rs).amount * 100) \div Head(rs).price ELSE 0)
       + SharesIn(Tail(rs), tok, side)

\* C8: when the executed trades on a token bought as many shares as they
\* sold, no position on the token is open: size 0 and cost basis 0.
C8_NetZeroLeavesNoOpenPosition ==
  \A tok \in Tokens :
     (SharesIn(rows, tok, "BUY") > 0
        /\ SharesIn(rows, tok, "BUY") = SharesIn(rows, tok, "SELL")) =>
       \A side \in {"LONG", "SHORT"} :
          /\ positions[<<tok, side>>].status # "open"
          /\ positions[<<tok, side>>].size = 0
          /\ positions[<<tok, side>>].cost = 0

\* C9: once a replacement has been accepted, the weights of the fund's
\* active allocations sum to 1.0 within 0.01, also when a request names an
\* address twice or in two letter cases.
C9_ActiveWeightsSumToOne ==
  (\E a \in DOMAIN allocs : allocs[a].active) =>
     /\ ActiveWeight - WeightOne <= WeightTolerance
     /\ WeightOne - ActiveWeight <= WeightTolerance

\* An invest immediately followed by the withdrawal of that investment.
RoundTripDone == hist.id # 0 /\ hist.done

Abs(x) == IF x < 0 THEN 0 - x ELSE x

C3_FundMarkBeforeOrder ==
  [][ (Len(orders') > Len(orders) /\ orders'[Len(orders')].engine = "fund")
        => orders'[Len(orders')].id \in seen ]_vars

\* C5: a trade that is in a followed trader's feed when the worker starts
\* is never executed: no order is submitted and no row is written for it.
C5_NoPreStartTradeExecuted == orders = <<>> /\ rows = <<>>

\* The position table obtained by applying the upsert rule to the executed
\* rows that carry a price, in order.
RECURSIVE ReplayPositions(_, _)
ReplayPositions(pos, rs) ==
  IF rs = <<>> THEN pos
  ELSE ReplayPositions(
         IF Head(rs).status = "executed" /\ Head(rs).price > 0
           THEN UpsertPosition(pos, Head(rs).token, Head(rs).side, Head(rs).amount,
                               Head(rs).price)
           ELSE pos,
         Tail(rs))

\* C7: replaying the upsert rule over the executed rows with a price, of
\* every engine, gives the stored positions.
C7_PositionsMatchReplay ==
  positions = ReplayPositions([k \in PosKeys |-> NoPosition], rows)

\* C11: after any sequence of invests, withdrawals and NAV updates,
\* total_shares >= 0 and total_aum >= 0, and the NAV update_fund_nav computes
\* is total_aum / total_shares with shares, 1.0 without.
C11_FundTotalsNonNegative ==
  /\ fund.total_shares >= 0
  /\ fund.total_aum >= 0
  /\ NavOf(fund) = (IF fund.total_shares > 0
                      THEN RoundDiv(fund.total_aum * NavOne, fund.total_shares)
                      ELSE NavOne)

\* The orders an engine has submitted under a ledger key.
OrdersFor(engine, id) ==
  {i \in 1..Len(orders) : orders[i].engine = engine /\ orders[i].id = id}

LiveWorkers(who) ==
  {t \in 1..MaxThreads : IsAlive(sup.thread[t]) /\ sup.thread[t].user = who}

\* C13: at any time at most one copy worker is alive per user, also when two
\* start requests race each other.
C13_AtMostOneLiveWorker == \A who \in Users : Cardinality(LiveWorkers(who)) <= 1

\* C14: once a stop request for a started copy worker has returned, the worker
\* eventually terminates and the status reads stopped, however the stop
\* interleaves with the worker's startup and loop.
C14_StopTerminatesWorker ==
  \A t \in 1..MaxThreads :
     (t \in sup.stops) ~> (sup.thread[t].pc = "dead")

\* C15: every transition of the copy engine between running and stopped is
\* followed by a status event whose payload shows the new state.
C15_StatusEventFollowsTransition ==
  /\ (BuildStatusPayload(sup) = "stopped")
        ~> (sup.emitted = "stopped" \/ BuildStatusPayload(sup) = "running")
  /\ (BuildStatusPayload(sup) = "running")
        ~> (sup.emitted = "running" \/ BuildStatusPayload(sup) = "stopped")

\* C16: workers are keyed by user: a user with no live worker of their own is
\* never refused a start because of another user's worker, and a stop request
\* clears the run flag of the caller's own worker only.
C16_WorkersKeyedByUser ==
  [][ /\ (sup'.last # sup.last /\ sup'.last.op = "start" /\ sup'.last.code = 400
            => LiveWorkers(sup'.last.user) # {})
      /\ \A t \in 1..MaxThreads :
           (sup.thread[t].pc = sup'.thread[t].pc /\ sup.thread[t].running
              /\ ~sup'.thread[t].running)
             => (sup'.last.op = "stop" /\ sup'.last.user = sup.thread[t].user) ]_vars

\* The step of poll_trader that evaluates a candidate not yet in the ledger.
FreshCandidateStep ==
  /\ cw.pc = "cand"
  /\ cw.queue # <<>>
  /\ cw' # cw
  /\ GetTradeId(UT[Head(cw.queue)]) \notin seen

\* C17: a candidate aged exactly max_trade_age seconds passes the staleness
\* check (and is executed when nothing else rejects it); one aged
\* max_trade_age + 1 seconds is rejected as too_old, is marked seen, and the
\* step writes no trade row and submits no order.
C17_StalenessBoundary ==
  [][ FreshCandidateStep =>
        LET u == Head(cw.queue) IN
          /\ (age[u] = MaxTradeAge =>
                /\ ShouldCopy(u).reason # "too_old"
                /\ (ShouldCopy(u).ok => cw'.pc = "exec" /\ cw'.cur = u))
          /\ (age[u] = MaxTradeAge + 1 =>
                /\ ShouldCopy(u).reason = "too_old"
                /\ GetTradeId(UT[u]) \in seen'
                /\ rows' = rows
                /\ orders' = orders
                /\ cw'.pc = "cand") ]_vars

C17_Witness ==
  /\ cw.pc = "exec"
  /\ age[cw.cur] = MaxTradeAge
  /\ \E u \in UIds :
       /\ age[u] = MaxTradeAge + 1
       /\ GetTradeId(UT[u]) \in seen
       /\ \A i \in 1..Len(rows) : rows[i].original_trade_id # GetTradeId(UT[u])

\* C18: for every upstream price p > 0 and every slippage s >= 0 the limit
\* price of a limit-mode copy lies in [0.01, 0.99] and equals p * (1 + s)
\* clamped to that range for BUY, p * (1 - s) clamped to that range for SELL.
Clamp(x, lo, hi) == Max(lo, Min(x, hi))

C18_LimitPriceClamped ==
  (calc.fn = "limit_price" /\ calc.done) =>
     LET s == IF calc.side = "BUY" THEN PriceOne + calc.slippage_bp
              ELSE PriceOne - calc.slippage_bp
     IN /\ calc.out >= MinLimitPrice
        /\ calc.out <= MaxLimitPrice
        /\ calc.out = Clamp(RoundDiv(calc.trader_price * s, PriceOne),
                            MinLimitPrice, MaxLimitPrice)
\* C19: with bounds, budgets and daily spend held fixed, the amount returned
\* by calculate_copy_size is monotone non-decreasing in copy_percentage and
\* in the upstream USD size (size * price), for all upstream sizes >= 0,
\* 0 included: no call with a smaller or equal percentage and USD size
\* returns more.  Compared over trades that carry a price, where the USD size
\* is size * price.
SameBudgets(c, d) ==
  /\ c.min_copy_size = d.min_copy_size
  /\ c.max_copy_size = d.max_copy_size
  /\ c.global_remaining = d.global_remaining
  /\ c.trader_remaining = d.trader_remaining

C19_CopySizeMonotone ==
  (calc.fn = "copy_size" /\ calc.done /\ calc.price > 0) =>
     \A c \in SizeCalls :
        (/\ SameBudgets(c, calc)
         /\ c.price > 0
         /\ c.copy_percentage <= calc.copy_percentage
         /\ c.size * c.price <= calc.size * calc.price)
        => CopySizeOf(c) <= calc.out
\* C20: a live execute_arbitrage always submits both legs (two BUY market
\* orders, YES then NO, and no other order) and records exactly two rows,
\* YES and NO; it returns success iff the gateway reported both legs
\* executed; when exactly one leg fails one row is executed and the other is
\* failed and carries the reason, and nothing is submitted to unwind.
LegReported(result) == result = "ok"

LegReason(result) ==
  CASE result = "error" -> "gateway error"
    [] result = "error_blank" -> ""
    [] OTHER -> "Order execution failed"

LiveArbitrageStep == rows' # rows /\ calc'.fn = "execute_arbitrage" /\ ~calc'.dry_run

C20_ArbitrageBothLegs ==
  [][ LiveArbitrageStep =>
        LET n == Len(rows)
            m == Len(orders)
            yes == rows'[n + 1]
            no == rows'[n + 2]
            yr == calc'.yes_result
            nr == calc'.no_result
        IN /\ Len(orders') = m + 2
           /\ SubSeq(orders', 1, m) = orders
           /\ orders'[m + 1].token = "tok1" /\ orders'[m + 2].token = "tok2"
           /\ \A i \in {m + 1, m + 2} :
                 orders'[i].side = "BUY" /\ orders'[i].engine = "arbitrage"
           /\ Len(rows') = n + 2
           /\ SubSeq(rows', 1, n) = rows
           /\ yes.token = "tok1" /\ no.token = "tok2"
           /\ yes.strategy = "arbitrage" /\ no.strategy = "arbitrage"
           /\ (yes.status = "executed") = LegReported(yr)
           /\ (no.status = "executed") = LegReported(nr)
           /\ yes.status \in {"executed", "failed"}
           /\ no.status \in {"executed", "failed"}
           /\ calc'.success = (LegReported(yr) /\ LegReported(nr))
           /\ (yes.status = "failed" => yes.notes = LegReason(yr))
           /\ (no.status = "failed" => no.notes = LegReason(nr)) ]_vars

\* A half-fill has been recorded: the YES leg executed, the NO leg failed.
C20_Witness ==
  /\ calc.fn = "execute_arbitrage"
  /\ ~calc.dry_run
  /\ ~calc.success
  /\ Len(rows) >= 2
  /\ rows[Len(rows) - 1].status = "executed"
  /\ rows[Len(rows)].status = "failed"
  /\ rows[Len(rows)].notes # ""
  /\ Len(orders) = Len(rows)
\* C21: check_opportunity returns an opportunity for a (YES, NO) pair iff
\* both BUY prices are available, their sum c satisfies 0 < c < 1 and
\* (1 - c) / c * 100 >= min_profit_pct; otherwise it returns none and no
\* order is placed (and no row written) for the pair.
Qualifies(yes_price, no_price) ==
  /\ yes_price # NONE
  /\ no_price # NONE
  /\ LET c == yes_price + no_price
     IN /\ 0 < c
        /\ c < PriceOne
        /\ (PriceOne - c) * 100 >= MinProfitPct * c

ScannedStep == calc'.fn \in {"check_opportunity", "execute_arbitrage"}

C22_BadAllocationsRejected ==
  [][ calc'.fn = "set_allocations" =>
        LET c == calc'
            bad == \/ OffToleranceExact(c.total_weight)
                   \/ c.nonpositive
                   \/ c.fund_id # 1
                   \/ c.caller # fund.owner
        IN /\ (bad => c.code # 200 /\ allocs' = allocs)
           /\ ((~bad /\ ~c.malformed) => c.code = 200) ]_vars
\* C23: in dry-run mode no engine (copy, arbitrage, fund) ever calls a gateway
\* order-placement operation; every trade row it records has status dry_run,
\* and no position, followed-trader counter or daily executed spend changes.
C23_DryRunTouchesNothing ==
  /\ orders = <<>>
  /\ \A i \in 1..Len(rows) : rows[i].status = "dry_run"
  /\ positions = [k \in PosKeys |-> NoPosition]
  /\ \A tr \in TraderSet : followed[tr].total_copied = 0 /\ followed[tr].total_spent = 0
  /\ GetDailySpend = 0
  /\ \A tr \in TraderSet : GetTraderDailySpend(tr) = 0

\* Each of the three engines has recorded a dry-run row.
C23_Witness ==
  \A st \in {"copy", "fund", "arbitrage"} :
     \E i \in 1..Len(rows) : rows[i].strategy = st /\ rows[i].status = "dry_run"
\* C24: there is at most one followed_traders row per (user_address, trader
\* address) after any sequence of add and remove operations, including two
\* concurrent adds of the same pair and adds made without a user address.
C24_OneRowPerUserAndTrader ==
  \A i, j \in 1..Len(followed_traders.rows) :
     (i < j) =>
       ~(/\ followed_traders.rows[i].address = followed_traders.rows[j].address
         /\ followed_traders.rows[i].user_address = followed_traders.rows[j].user_address)
\* C25: every candidate rejected by the copy admission pipeline as stale, as
\* lacking a token id, or as having a side other than BUY/SELL has its
\* fingerprint in the dedup ledger afterwards and produces no trade row and
\* no order.
PermanentDefect(u) ==
  \/ (UT[u].ts # "" /\ age[u] > MaxTradeAge)
  \/ (UT[u].asset_id = NULL /\ UT[u].asset = NULL)
  \/ UT[u].side \notin {"BUY", "SELL"}

\* poll_trader evaluates a candidate.
CandidateStep == cw.pc = "cand" /\ cw.queue # <<>> /\ cw' # cw

BudgetRejection ==
  CandidateStep /\ ShouldCopyReason(Head(cw.queue)) \in BudgetReasons

C26_BudgetRejectionFrame ==
  [][ BudgetRejection =>
        /\ rows' = rows
        /\ positions' = positions
        /\ followed' = followed
        /\ orders' = orders
        /\ seen' = seen
        /\ GetTradeId(UT[Head(cw.queue)]) \notin seen'
        /\ cw'.pc = "cand" ]_vars

\* A candidate turned down for a daily cap was copied on a later day.
C26_Witness ==
  \E u \in calc.turned_down : \E i \in 1..Len(rows) :
     /\ rows[i].original_trade_id = GetTradeId(UT[u])
     /\ rows[i].status = "executed"
     /\ rows[i].today
\* C27: every copy order amount is at most the user's remaining global daily
\* budget and at most the followed trader's remaining daily budget as read
\* at sizing time, for every upstream trade including those whose size x
\* price is zero; when the capped amount is <= 0 no order is submitted and
\* no trade row is written.
SizingStep == cw.pc = "exec" /\ cw'.pc \in {"order", "cand"} /\ cw' # cw

C27_CopyWithinBudgets ==
  [][ SizingStep =>
        LET tr == UT[cw.cur].trader
        IN IF cw'.pc = "order"
             THEN /\ cw'.amount <= MaxDailySpend - GetDailySpend
                  /\ cw'.amount <= ResolveSettings(tr).max_daily_spend - GetTraderDailySpend(tr)
             ELSE rows' = rows /\ orders' = orders ]_vars
\* C28: once the stop flag of a worker is set, the worker starts polling no
\* further trader: the copy worker starts the poll of a trader, and the fund
\* worker goes on to a further allocated trader, only while its flag is
\* still up.
C28_NoFurtherTraderAfterStop ==
  [][ /\ (cw.pc = "traders" /\ cw'.pc = "cand") => cw.running
      /\ (fw.pc = "alloc" /\ fw'.pc = "cand" /\ fw.ai > 1) => fw.running ]_vars
\* C29: the copy worker uses the follow list and the per-trader overrides as
\* stored at the start of each polling iteration: when an iteration begins,
\* every trader it is going to poll is active in the store and is held with
\* the overrides the store has for it.
IterationBegins == cw.pc = "top" /\ cw'.pc = "traders"

C29_IterationUsesStoredList ==
  [][ IterationBegins =>
        \A i \in 1..Len(cw'.traders) :
           /\ followed[cw'.traders[i]].active
           /\ cw'.ovs[cw'.traders[i]] = followed[cw'.traders[i]].ov ]_vars
\* C30: after a position for (user, token, side) has been closed, the next
\* executed trade with price p > 0 and amount u on the same (user, token,
\* side) creates a new open position with size u/p, cost basis u and average
\* entry price p.
UpsertOnClosed ==
  /\ calc'.fn = "upsert_position"
  /\ calc' # calc
  /\ calc'.trade_price > 0
  /\ positions[<<calc'.token, calc'.pos_side>>].status = "closed"

C30_ReopenAfterClose ==
  [][ UpsertOnClosed =>
        positions'[<<calc'.token, calc'.pos_side>>] =
          [status |-> "open",
           size |-> (calc'.trade_amount * 100) \div calc'.trade_price,
           cost |-> calc'.trade_amount,
           avg |-> calc'.trade_price,
           cur |-> calc'.trade_price,
           pnl |-> 0] ]_vars
\* C31: every order amount submitted by the fund engine equals originalUsd x
\* copy_percentage x weight capped by min(max_copy_size, 0.05 x total_aum);
\* in particular it never exceeds 5% of the fund's AUM.
FundOrderStep == fw.pc = "order" /\ orders' # orders

C31_FundOrderWithinAumCap ==
  [][ FundOrderStep =>
        LET t == UT[fw.cur]
            f == fw.funds[1]
            original_usd == IF t.price > 0 THEN t.size * t.price ELSE t.size * 100
            uncapped == original_usd * CopyPercentage * fw.allocs[fw.ai].weight
            cap == Min(MaxCopySize * 100000, f.total_aum * 5000)
            amount == orders'[Len(orders')].amount
        IN /\ amount = RoundDiv(Min(uncapped, cap), 100000)
           /\ amount * 20 <= f.total_aum ]_vars
\* C32: a trade row has status executed only if the gateway reported the
\* order as successful: whenever the gateway's order call returns an error
\* result or nothing, the status kept for the row is failed, in the fund
\* engine exactly as in the copy engine.
UnsuccessfulResults == {"error", "error_blank", "empty"}

C32_FailedOrderIsFailedRow ==
  [][ \A r \in UnsuccessfulResults :
        /\ (ExecOrder(r) /\ orders' # orders) => cw'.status = "failed"
        /\ (FundOrder(r) /\ orders' # orders) => fw'.status = "failed" ]_vars
\* C33: an investment is withdrawn at most once: of the withdraw requests
\* for one investment at most one succeeds, the fund's totals go down by the
\* withdrawn investments exactly once each, and a request by an address
\* other than the investor fails.
RECURSIVE ActiveShares(_)
ActiveShares(invs) ==
  IF invs = <<>> THEN 0
  ELSE (IF Head(invs).status = "active" THEN Head(invs).shares ELSE 0)
       + ActiveShares(Tail(invs))

C33_WithdrawnAtMostOnce ==
  /\ \A r1, r2 \in 1..MaxRequests :
        (r1 # r2 /\ calc.req[r1].code = 200 /\ calc.req[r2].code = 200)
          => calc.req[r1].id # calc.req[r2].id
  /\ fund.total_shares = ActiveShares(investments)
  /\ fund.total_aum = ActiveShares(investments)
  /\ \A r \in 1..MaxRequests :
        (calc.req[r].pc # "idle" /\ calc.req[r].id <= Len(investments)
           /\ investments[calc.req[r].id].investor # calc.req[r].caller)
          => calc.req[r].pc = "done" /\ calc.req[r].code = 400
\* C34: the position tracker's price batch never modifies a position that
\* is closed when the batch writes; for each still-open position it changes
\* only current_price and unrealized_pnl, with unrealized_pnl computed from
\* the size and average entry price stored at write time.
BatchStep == calc.fn = "update_prices" /\ calc' # calc

C34_BatchWritesOpenRowsOnly ==
  [][ BatchStep =>
        \A k \in PosKeys :
           positions'[k] # positions[k] =>
             /\ positions[k].status = "open"
             /\ positions'[k] =
                  [positions[k] EXCEPT
                     !.cur = positions'[k].cur,
                     !.pnl = UnrealizedPnl(positions[k], k[2], positions'[k].cur)] ]_vars
\* C35: a live test-trade request never executes an upstream trade that has
\* already been copied for the user or whose fingerprint is already in the
\* dedup ledger, so test requests and the copy worker together leave at most
\* one copy trade row per (user, fingerprint).
TestTradeExecutes ==
  calc'.fn = "copy_test_trade" /\ calc' # calc /\ rows' # rows

C35_TestTradeRespectsDedup ==
  /\ [][ TestTradeExecutes =>
           /\ calc'.id \notin seen
           /\ \A i \in 1..Len(rows) : rows[i].original_trade_id # calc'.id ]_vars
  /\ []C1_AtMostOneCopyRow
\* C36: dedup is scoped per user: bob's worker answers already_seen only for
\* a trade it has marked itself, never because alice's worker marked or
\* copied it.
C36_DedupPerUser ==
  [][ (calc'.fn = "should_copy" /\ calc' # calc /\ calc'.reason = "already_seen")
        => calc'.id \in calc.marked ]_vars
\* C37: after dedup entries older than 7 days have been expired from the
\* ledger, an upstream trade that was copied before is never admitted for
\* copying a second time, even if it still appears in the trader's feed and
\* whatever its shape.
Admitted == CandidateStep /\ cw'.pc = "exec"

C37_NoRecopyAfterExpiry ==
  [][ Admitted =>
        \A i \in 1..Len(rows) :
           ~(rows[i].strategy = "copy" /\ rows[i].user = User
               /\ rows[i].original_trade_id = GetTradeId(UT[cw'.cur])) ]_vars

\* ------------------------------------------------------------- close-all
\* No close-all call made yet.
NoCloseAll == [fn |-> "none", code |-> 0, closed |-> 0, failed |-> 0, errors |-> {}]

\* db.get_open_positions: the orders in which the open rows can come back
\* (ORDER BY unrealized_pnl DESC; rows of equal P&L in any order).
GetOpenPositions(pos) ==
  LET open == {k \in PosKeys : pos[k].status = "open"}
  IN {s \in [1..Cardinality(open) -> open] :
        /\ \A i, j \in DOMAIN s : i # j => s[i] # s[j]
        /\ \A i, j \in DOMAIN s : i < j => pos[s[i]].pnl >= pos[s[j]].pnl}

\* close_all_positions, lines 1097-1100: the USDC amount of the closing order
\* (cents), round(size * max(current_price, 0.01), 2) with a floor of a cent.
CloseAmount(p) == Max(RoundDiv(p.size * Max(p.cur, 1), 100), 1)

\* close_all_positions, line 1108: "if resp", the truth value of what the
\* gateway call handed back.  Only a missing or empty response is false.
CloseSucceeded(response) == response # "empty"

\* Variant of CloseSucceeded: a response counts only without an error in it.
CloseSucceededNoError(response) == response = "ok"

\* close_all_positions, lines 1089-1117: the loop over the open positions
\* from the i-th on; st holds the table, the orders sent and the counters.
RECURSIVE CloseEach(_, _, _, _)
CloseEach(order, i, res, st) ==
  IF i > Len(order) THEN st
  ELSE LET k == order[i]
           p == st.pos[k]
       IN IF p.size <= 0 THEN CloseEach(order, i + 1, res, st)
          ELSE LET sent == Append(st.orders,
                              [engine |-> "close_all", id |-> "", token |-> k[1],
                               side |-> IF k[2] = "LONG" THEN "SELL" ELSE "BUY",
                               amount |-> CloseAmount(p), mode |-> "MARKET"])
               IN IF CloseSucceeded(res[k])
                    THEN CloseEach(order, i + 1, res,
                           [st EXCEPT !.pos[k] = [p EXCEPT !.status = "closed", !.size = 0],
                                      !.orders = sent, !.closed = @ + 1])
                    ELSE CloseEach(order, i + 1, res,
                           [st EXCEPT !.orders = sent, !.failed = @ + 1,
                                      !.errors = @ \cup {k}])

\* POST /api/positions/close-all for the user: res is what the gateway hands
\* back for each position's order, client_ok whether the trading client could
\* be built.
CloseAllPositions(order, res, client_ok) ==
  /\ order \in GetOpenPositions(positions)
  /\ Len(orders) + Len(order) <= MaxOrders
  /\ IF order = <<>>
       THEN /\ calc' = [NoCloseAll EXCEPT !.fn = "close_all_positions", !.code = 400]
            /\ UNCHANGED <<positions, orders>>
     ELSE IF ~client_ok
       THEN /\ calc' = [NoCloseAll EXCEPT !.fn = "close_all_positions", !.code = 500]
            /\ UNCHANGED <<positions, orders>>
     ELSE LET st == CloseEach(order, 1, res,
                      [pos |-> positions, orders |-> orders, closed |-> 0, failed |-> 0,
                       errors |-> {}])
          IN /\ positions' = st.pos
             /\ orders' = st.orders
             /\ calc' = [fn |-> "close_all_positions", code |-> 200, closed |-> st.closed,
                         failed |-> st.failed, errors |-> st.errors]
  /\ UNCHANGED <<feed, age, seen, seenOld, rows, followed, cw, world, followed_traders, sup, fundVars>>

\* The positions close-all is followed on, and the prices the user trades at.
CloseKeys == {<<"tok1", "LONG">>, <<"tok1", "SHORT">>}
ClosePrices == {40, 50}

\* The user's trades on tok1 and close-all calls.
InitClose == CopyAtRest /\ FundIdle /\ calc = NoCloseAll
NextClose ==
  \/ \E side \in {"BUY", "SELL"}, p \in ClosePrices : CallUpsertPosition(side, 1000, p)
  \/ \E order \in GetOpenPositions(positions), res \in [CloseKeys -> OrderResults],
        client_ok \in BOOLEAN :
        CloseAllPositions(order, res, client_ok)
SpecClose == InitClose /\ [][NextClose]_vars

\* C38: close-all marks a position closed only if its closing market order
\* succeeded; when the gateway returns an error result for that order, the
\* position stays open with its size unchanged and is counted as failed.
C38_ClosedOnlyOnSuccess ==
  [][ \A order \in GetOpenPositions(positions), res \in [CloseKeys -> OrderResults] :
        CloseAllPositions(order, res, TRUE) =>
          \A i \in DOMAIN order :
             LET k == order[i] IN
               /\ positions'[k].status = "closed" => res[k] = "ok"
               /\ res[k] \in {"error", "error_blank"} =>
                     /\ positions'[k] = positions[k]
                     /\ k \in calc'.errors ]_vars

\* ------------------------------------------------------------- counters
\* execute_copy, lines 413-428, at the grain of the store's transactions:
\* db.record_trade commits the trade row on a connection of its own.
ExecRecordTrade ==
  /\ cw.pc = "record"
  /\ LET t == UT[cw.cur] IN
       rows' = Append(rows,
            [strategy |-> "copy", user |-> User, token |-> TokenOf(t), side |-> t.side,
             amount |-> cw.amount, price |-> t.price, copied_from |-> t.trader,
             original_trade_id |-> GetTradeId(t), status |-> cw.status,
             notes |-> IF cw.reason # "" THEN cw.reason ELSE NULL, today |-> TRUE])
  /\ cw' = IF cw.status = "executed"
             THEN [cw EXCEPT !.pc = "stats"]
             ELSE [cw EXCEPT !.pc = "cand", !.cur = NULL, !.amount = 0, !.mode = NULL,
                             !.result = NULL, !.status = NULL, !.reason = ""]
  /\ UNCHANGED <<feed, age, seen, seenOld, positions, followed, orders, world, followed_traders, sup, calc, fundVars>>

\* execute_copy, lines 438-462: after the row is committed, an executed copy
\* goes on to db.update_trader_stats and db.upsert_position.
ExecUpdateStats ==
  /\ cw.pc = "stats"
  /\ LET t == UT[cw.cur] IN
       /\ followed' = UpdateTraderStats(followed, t.trader, cw.amount)
       /\ positions' = IF t.price > 0
                         THEN UpsertPosition(positions, TokenOf(t), t.side, cw.amount, t.price)
                         ELSE positions
  /\ cw' = [cw EXCEPT !.pc = "cand", !.cur = NULL, !.amount = 0, !.mode = NULL,
                      !.result = NULL, !.status = NULL, !.reason = ""]
  /\ UNCHANGED <<feed, age, seen, seenOld, rows, orders, world, followed_traders, sup, calc, fundVars>>

\* The copy worker with the record step taken one transaction at a time.
InitStats == CopyIdle /\ FundIdle
NextStats ==
  \/ CopyStart(FALSE)
  \/ RunBegin
  \/ \E ok \in BOOLEAN : ScanTrader(ok)
  \/ LoopTop
  \/ \E ok \in BOOLEAN : PollTrader(ok)
  \/ Candidate
  \/ ExecMark
  \/ \E r \in {"ok", "error"} : ExecOrder(r)
  \/ ExecRecordTrade
  \/ ExecUpdateStats
  \/ IterEnd(FALSE, TRUE)
  \/ Crash
  \/ \E u \in UIds : Publish(u)
SpecStats == InitStats /\ [][NextStats]_vars

\* The user's executed copy rows copied from trader tr.
ExecutedCopies(rs, tr) ==
  {i \in 1..Len(rs) : /\ rs[i].strategy = "copy" /\ rs[i].user = User
                      /\ rs[i].copied_from = tr /\ rs[i].status = "executed"}

RECURSIVE SumAmounts(_, _)
SumAmounts(rs, S) ==
  IF S = {} THEN 0
  ELSE LET i == CHOOSE j \in S : TRUE IN rs[i].amount + SumAmounts(rs, S \ {i})

\* C39: for every followed trader of the user, in every reachable state
\* total_copied equals the number of the user's executed copy rows copied
\* from that trader and total_spent the sum of their amounts; failed and
\* dry-run copies leave the counters.
C39_CountersMatchExecutedRows ==
  \A tr \in TraderSet :
     /\ followed[tr].total_copied = Cardinality(ExecutedCopies(rows, tr))
     /\ followed[tr].total_spent = SumAmounts(rows, ExecutedCopies(rows, tr))

\* ------------------------------------------------------------- fund NAV
\* What the user posts to the invest endpoint here, in cents.
NavAmounts == {8, 9}

\* The fund worker, live and never stopped, over a fund that starts empty,
\* while the user invests in the fund and withdraws from it.
InitNav ==
  /\ CopyIdle
  /\ fund = InitialFund
  /\ allocs = [a \in {"0xaa", "0xbb", "0xcc"} |->
                 IF a = "0xcc" THEN NoAlloc ELSE [weight |-> 500, active |-> TRUE]]
  /\ investments = <<>>
  /\ resp = NoResp
  /\ hist = NoHist
  /\ fw = IdleFundWorker
NextNav ==
  \/ FundEngineStart(FALSE)
  \/ FundRunBegin
  \/ FundLoopTop
  \/ FundFetch(TRUE)
  \/ FundCandidate
  \/ \E r \in {"ok", "error"} : FundOrder(r)
  \/ FundRecord
  \/ FundMark
  \/ \E p \in BOOLEAN : FundIterEnd(p)
  \/ Publish("u1")
  \/ \E amount \in NavAmounts : InvestInFund(User, amount)
  \/ \E id \in 1..MaxInvestments : WithdrawInvestment(id, User)
SpecNav == InitNav /\ [][NextNav]_vars

\* A step that changes the fund's total_aum or total_shares.
TotalsChange ==
  fund'.total_aum # fund.total_aum \/ fund'.total_shares # fund.total_shares

\* C40: the fund's total_aum and total_shares change only through invest and
\* withdraw, never through a fund trade or a NAV update; and the NAV per
\* share that update_fund_nav records is 1.0 in every reachable state,
\* whatever trades the fund worker has executed.
C40_NavStaysOne ==
  /\ [](fund.nav_per_share = NavOne /\ fund.perf \in {NONE, NavOne})
  /\ [][ TotalsChange =>
           /\ fw' = fw /\ rows' = rows /\ orders' = orders
           /\ fund'.nav_per_share = fund.nav_per_share /\ fund'.perf = fund.perf
           /\ resp'.op \in {"invest", "withdraw"} /\ resp'.code = 200
           /\ investments' # investments ]_vars

\* The worker has executed a fund trade, investments were made and one of
\* them withdrawn, and the NAV was then computed from the totals and recorded.
C40_Witness ==
  /\ \E i \in 1..Len(rows) : rows[i].strategy = "fund" /\ rows[i].status = "executed"
  /\ \E i \in 1..Len(investments) : investments[i].status = "withdrawn"
  /\ fund.total_shares > 0
  /\ fund.perf = NavOne

====
